---- MODULE Spec2Model ----
(***************************************************************************)
(* Model of the XSD outline provider (src/src/xsdOutline.ts): the document *)
(* store with its asynchronous recomputation, the query engine, the type   *)
(* resolver, the tree builder and the node locator.                        *)
(***************************************************************************)
EXTENDS Naturals, Sequences, FiniteSets, TLC

VARIABLES
    activated,            \* activate() has run (constructor + setContext)
    active,               \* vscode.window.activeTextEditor: a uri or "none"
    text,                 \* editor buffers: uri -> content id
    disk,                 \* file system: path -> [c: content id or "absent", m: mtime]
    document,             \* this.document: a list holding at most one parsed document
    editor,               \* this.editor: uri or "none"
    isXsdDocument,        \* this.isXsdDocument
    importedDocuments,    \* this.importedDocuments, in Map insertion order
    importedSchemaCache,  \* this.importedSchemaCache: path -> list of at most one entry
    tasks,                \* suspended checkDocument() invocations
    context,              \* last value published for 'xsdOutlineEnabled'
    last,                 \* what the step just taken published and reported
    oracle,               \* where the engine's call stack overflows
    call,                 \* the last tree/type/locator call and its outcome
    occurrences,          \* XsdDecorationProvider.occurrences: resource key -> min, max
    nillableNodes,        \* XsdDecorationProvider.nillableNodes: the keys set to true
    nodeIds               \* how many tree items have been given a resource key

vars == <<activated, active, text, disk, document, editor, isXsdDocument,
          importedDocuments, importedSchemaCache, tasks, context, last,
          oracle, call, occurrences, nillableNodes, nodeIds>>

\* The decoration provider (src/src/xsdNodeDecorationProvider.ts) and the keys
\* of the tree items it decorates.
decorations == <<occurrences, nillableNodes, nodeIds>>

provider == <<document, editor, isXsdDocument, importedDocuments, importedSchemaCache>>

-----------------------------------------------------------------------------
(* Bounds of the model *)

MaxStack == 4       \* frames of recursion the engine allows before RangeError
MaxTasks == 1       \* checkDocument() invocations suspended at the same time
MaxMtime == 2       \* file modifications followed

-----------------------------------------------------------------------------
\* F(e) with e evaluated once: `const x = e; ...` of the source.
With(e, F(_)) == CHOOSE r \in {F(x) : x \in {e}} : TRUE

-----------------------------------------------------------------------------
(* Parsed XML: a content is a list of elements in document order; p is the  *)
(* index of the parent (0: the document node), l the local name; absent     *)
(* attributes are "" (the code reads every attribute through `|| ''` or a   *)
(* truthiness test); type and base are QNames split at ':'.                 *)

El(p, l) == [p |-> p, l |-> l, name |-> "", type |-> <<>>, base |-> <<>>,
             value |-> "", loc |-> "", ns |-> "", min |-> "", max |-> "",
             nillable |-> FALSE]
Named(p, l, n) == [El(p, l) EXCEPT !.name = n]
Typed(p, l, n, t) == [El(p, l) EXCEPT !.name = n, !.type = t]
Based(p, l, b) == [El(p, l) EXCEPT !.base = b]
Enum(p, v) == [El(p, "enumeration") EXCEPT !.value = v]
Import(p, l, n, loc) == [El(p, l) EXCEPT !.ns = n, !.loc = loc]

\* minOccurs/maxOccurs and nillable="true" written on an element
Occurs(e, min, max) == [e EXCEPT !.min = min, !.max = max]
Nillable(e) == [e EXCEPT !.nillable = TRUE]

MainTree == <<
    El(0, "schema"),                                         \* 1
    Import(1, "import", "N", "b.xsd"),                       \* 2
    Import(1, "import", "M", "missing.xsd"),                 \* 3
    Import(1, "include", "", "c.xsd"),                       \* 4
    Typed(1, "element", "Order", <<"OrderType">>),           \* 5
    Typed(1, "element", "Item", <<"tns", "B">>),             \* 6
    Named(1, "complexType", "OrderType"),                    \* 7
    El(7, "sequence"),                                       \* 8
    Occurs(Typed(8, "element", "Id", <<"xs", "string">>), "1", "1"),          \* 9
    Occurs(Typed(8, "element", "Status", <<"StatusEnum">>), "0", "unbounded"), \* 10
    Named(1, "complexType", "A"),                            \* 11
    El(11, "sequence"),                                      \* 12
    Occurs(Typed(12, "element", "X", <<"Code">>), "1", ""),  \* 13
    Named(1, "complexType", "B"),                            \* 14
    El(14, "complexContent"),                                \* 15
    Based(15, "extension", <<"A">>),                         \* 16
    El(16, "sequence"),                                      \* 17
    Occurs(Typed(17, "element", "Y", <<"xs", "int">>), "0", ""), \* 18
    El(14, "all"),                                           \* 19
    Occurs(Typed(19, "element", "Z", <<"Dup">>), "", "unbounded"), \* 20
    Occurs(Typed(14, "element", "W", <<"tns", "Wide">>), "2", "5"), \* 21
    Named(1, "simpleType", "Dup"),                           \* 22
    Based(22, "restriction", <<"xs", "string">>),            \* 23
    Named(1, "complexType", "Wide"),                         \* 24
    Nillable(Occurs(Typed(24, "element", "In", <<"xs", "date">>), "", "3")), \* 25
    Typed(1, "element", "Top", <<"C">>)                      \* 26
>>

BTree == <<
    El(0, "schema"),                                         \* 1
    Named(1, "simpleType", "StatusEnum"),                    \* 2
    Based(2, "restriction", <<"xs", "string">>),             \* 3
    Enum(3, "NEW"),                                          \* 4
    Enum(3, "DONE"),                                         \* 5
    Typed(1, "element", "Ext", <<"xs", "string">>),          \* 6
    Named(1, "simpleType", "Dup"),                           \* 7
    Based(7, "restriction", <<"xs", "token">>),              \* 8
    Enum(8, "ONE")                                           \* 9
>>

CTree == <<
    El(0, "schema"),                                         \* 1
    Named(1, "simpleType", "Code"),                          \* 2
    Based(2, "restriction", <<"c", "Short">>),               \* 3
    Named(1, "simpleType", "Short"),                         \* 4
    Based(4, "restriction", <<"xs", "token">>),              \* 5
    Named(1, "complexType", "C"),                            \* 6
    El(6, "complexContent"),                                 \* 7
    Based(7, "extension", <<"B">>),                          \* 8
    Occurs(El(8, "choice"), "0", "unbounded"),               \* 9
    Occurs(Typed(9, "element", "V", <<"Color">>), "0", "1")  \* 10
>>

PlainTree == <<
    El(0, "schema"),                                         \* 1
    Import(1, "include", "", "/w/c.xsd"),                    \* 2
    Import(1, "include", "", "d.xsd"),                       \* 3
    Nillable(Typed(1, "element", "Paint", <<"Color">>)),     \* 4
    Named(1, "simpleType", "Color"),                         \* 5
    Based(5, "restriction", <<"string">>),                   \* 6
    Enum(6, "RED"),                                          \* 7
    Enum(6, "BLUE"),                                         \* 8
    Occurs(Typed(1, "element", "Deep", <<"C">>), "", "1"),   \* 9
    Named(1, "element", "Pick"),                             \* 10
    El(10, "complexType"),                                   \* 11
    El(11, "choice"),                                        \* 12
    El(12, "sequence"),                                      \* 13
    Occurs(Typed(13, "element", "P1", <<"Code">>), "1", "unbounded"), \* 14
    Typed(1, "element", "Bare", <<"Loose">>),                \* 15
    Named(1, "complexType", "Loose"),                        \* 16
    Occurs(Typed(16, "element", "L1", <<"string">>), "2", "") \* 17
>>

CycTree == <<
    El(0, "schema"),                                         \* 1
    Typed(1, "element", "Fine", <<"xs", "string">>),         \* 2
    Typed(1, "element", "Self", <<"T">>),                    \* 3
    Typed(1, "element", "Mutual", <<"U">>),                  \* 4
    Named(1, "simpleType", "T"),                             \* 5
    Based(5, "restriction", <<"T">>),                        \* 6
    Named(1, "simpleType", "U"),                             \* 7
    Based(7, "restriction", <<"V">>),                        \* 8
    Named(1, "simpleType", "V"),                             \* 9
    Based(9, "restriction", <<"U">>)                         \* 10
>>

\* complexTypes that extend themselves, each other, or a type defined
\* nowhere, and one with a choice directly under it
ExtTree == <<
    El(0, "schema"),                                         \* 1
    Typed(1, "element", "Loop", <<"R">>),                    \* 2
    Named(1, "complexType", "R"),                            \* 3
    El(3, "complexContent"),                                 \* 4
    Based(4, "extension", <<"R">>),                          \* 5
    El(5, "sequence"),                                       \* 6
    Typed(6, "element", "r1", <<"xs", "string">>),           \* 7
    Typed(1, "element", "Ping", <<"P">>),                    \* 8
    Named(1, "complexType", "P"),                            \* 9
    El(9, "complexContent"),                                 \* 10
    Based(10, "extension", <<"Q">>),                         \* 11
    Named(1, "complexType", "Q"),                            \* 12
    El(12, "complexContent"),                                \* 13
    Based(13, "extension", <<"P">>),                         \* 14
    El(14, "sequence"),                                      \* 15
    Typed(15, "element", "q1", <<"xs", "int">>),             \* 16
    Typed(1, "element", "Opt", <<"Either">>),                \* 17
    Named(1, "complexType", "Either"),                       \* 18
    El(18, "choice"),                                        \* 19
    Typed(19, "element", "e1", <<"xs", "string">>),          \* 20
    Typed(19, "element", "e2", <<"xs", "string">>),          \* 21
    Typed(1, "element", "Orphan", <<"Lost">>),               \* 22
    Named(1, "complexType", "Lost"),                         \* 23
    El(23, "complexContent"),                                \* 24
    Based(24, "extension", <<"Nowhere">>)                    \* 25
>>

NoteTree == << El(0, "note"), El(1, "body") >>

\* Texts and files. "bad" is text the XML parser rejects with a fatal error.
Contents == {"main", "b", "c", "plain", "cyc", "ext", "note", "bad"}

Tree(c) ==
    CASE c = "main" -> MainTree
      [] c = "b" -> BTree
      [] c = "c" -> CTree
      [] c = "plain" -> PlainTree
      [] c = "cyc" -> CycTree
      [] c = "ext" -> ExtTree
      [] c = "note" -> NoteTree
      [] OTHER -> <<>>

Parses(c) == c # "bad"

\* The root tag as written and the namespace its elements are in: "main", "b",
\* "c", "cyc" and "ext" use the xs: prefix bound to the XML Schema namespace; "plain"
\* leaves its elements in no namespace and only declares xmlns:xs.
RootNodeName(c) ==
    CASE c \in {"main", "b", "c", "cyc", "ext"} -> "xs:schema"
      [] c = "plain" -> "schema"
      [] OTHER -> "note"

InXsdNamespace(c) == c \in {"main", "b", "c", "cyc", "ext"}

HasXmlnsXs(c) == c \in {"main", "b", "c", "cyc", "ext", "plain"}

-----------------------------------------------------------------------------
(* Query engine: the XPath expressions the provider evaluates, as lists of  *)
(* steps. ln is the set of local names `local-name()` is compared with     *)
(* ({}: `*`), q marks a plain QName test such as `enumeration` (XPath 1.0:  *)
(* an unprefixed name selects elements in no namespace), attr/val is an     *)
(* `[@attr='val']` predicate.                                              *)

Step(ax, ln) == [ax |-> ax, ln |-> ln, q |-> FALSE, attr |-> "", val |-> ""]
StepAttr(ax, ln, attr, val) == [Step(ax, ln) EXCEPT !.attr = attr, !.val = val]
Path(abs, steps) == [abs |-> abs, steps |-> steps]
NoPath == Path(FALSE, <<>>)

Groups == {"sequence", "choice", "all"}

RECURSIVE AncestorsOf(_, _)
AncestorsOf(t, k) == IF k = 0 THEN {} ELSE {t[k].p} \cup AncestorsOf(t, t[k].p)

AttrOf(e, attr) ==
    CASE attr = "name" -> e.name
      [] attr = "value" -> e.value
      [] OTHER -> ""

StepMatches(c, t, k, s) ==
    /\ s.ln = {} \/ t[k].l \in s.ln
    /\ s.q => ~InXsdNamespace(c)
    /\ s.attr # "" => (AttrOf(t[k], s.attr) # "" /\ AttrOf(t[k], s.attr) = s.val)

StepEval(c, t, from, s) ==
    {k \in 1..Len(t) :
        /\ StepMatches(c, t, k, s)
        /\ IF s.ax = "child" THEN t[k].p \in from
           ELSE AncestorsOf(t, k) \cap from # {}}

RECURSIVE PathEval(_, _, _, _)
PathEval(c, t, from, steps) ==
    IF steps = <<>> THEN from
    ELSE With(StepEval(c, t, from, Head(steps)),
              LAMBDA found : PathEval(c, t, found, Tail(steps)))

\* xpath.select(expr, node): the matching elements of node's document, in
\* document order. An element is known by its document and its place n in
\* it (0: the document node) and carries its own name and attributes, e.
Select(path, doc, ctx) ==
    With(Tree(doc.c),
         LAMBDA t :
             With(PathEval(doc.c, t, IF path.abs THEN {0} ELSE {ctx}, path.steps),
                  LAMBDA hits :
                      SelectSeq([k \in 1..Len(t) |-> [doc |-> doc, n |-> k, e |-> t[k]]],
                                LAMBDA el : el.n \in hits)))

RECURSIVE SelectEach(_, _)
SelectEach(path, nodes) ==
    IF nodes = <<>> THEN <<>>
    ELSE Select(path, Head(nodes).doc, Head(nodes).n) \o SelectEach(path, Tail(nodes))

\* selectElements that evaluates at the imported documents first
selectElementsImportsFirst(path, ctx) ==
    IF document = <<>> THEN <<>>
    ELSE SelectEach(path,
                    [i \in 1..Len(importedDocuments) |->
                        [doc |-> importedDocuments[i].doc, n |-> 0]]
                    \o <<[doc |-> IF ctx = <<>> THEN document[1] ELSE ctx[1].doc,
                          n |-> IF ctx = <<>> THEN 0 ELSE ctx[1].n]>>)

\* selectElements(xpathExpr, context?): ctx is <<>> or <<element>>. The
\* expression is evaluated at the context (or the root document), then at
\* each imported document.
selectElements(path, ctx) ==
    IF document = <<>> THEN <<>>
    ELSE SelectEach(path,
                    <<[doc |-> IF ctx = <<>> THEN document[1] ELSE ctx[1].doc,
                       n |-> IF ctx = <<>> THEN 0 ELSE ctx[1].n]>>
                    \o [i \in 1..Len(importedDocuments) |->
                           [doc |-> importedDocuments[i].doc, n |-> 0]])

ElemOf(el) == el.e

\* The expressions of the source, by the line that builds them.
QImports == Path(TRUE, <<Step("child", {"schema"}), Step("child", {"import", "include"})>>)
QRootElements == Path(TRUE, <<Step("child", {"schema"}), Step("child", {"element"})>>)
QChildren(L) == Path(FALSE, <<Step("child", L)>>)
QNamed(l, n) == Path(TRUE, <<StepAttr("desc", {l}, "name", n)>>)
QEnumerations == Path(FALSE, <<Step("child", {"restriction"}), Step("child", {"enumeration"})>>)
QExtensions == Path(FALSE, <<Step("child", {"complexContent"}), Step("child", {"extension"})>>)
QTypeGroupElements(n) ==
    Path(TRUE, <<StepAttr("desc", {"complexType"}, "name", n), Step("child", Groups),
                 Step("child", {"element"})>>)
QTypeExtensions(n) ==
    Path(TRUE, <<StepAttr("desc", {"complexType"}, "name", n),
                 Step("child", {"complexContent"}), Step("child", {"extension"})>>)
QInlineGroupElements ==
    Path(FALSE, <<Step("child", {"complexType"}), Step("child", Groups),
                  Step("child", {"element"})>>)

\* typeName.split(':').pop() || ''
StripPrefix(t) == IF t = <<>> THEN "" ELSE t[Len(t)]

-----------------------------------------------------------------------------
(* Outcomes of calls that can end in "RangeError: Maximum call stack size   *)
(* exceeded". The unguarded recursions run until the engine's stack is      *)
(* full. The overflow then strikes either inside the try block of           *)
(* selectElements (caught: the query yields []) or outside any try block    *)
(* (the RangeError leaves the call); which one, and at which depth, is the  *)
(* engine's choice, recorded in oracle.                                     *)

Ok(v) == [ok |-> TRUE, v |-> v]
Thrown == [ok |-> FALSE, v |-> <<>>]
ThrownName == [ok |-> FALSE, v |-> ""]

StackLimit == MaxStack - oracle.slack

Cat(r1, r2) ==
    With(<<r1, r2>>,
         LAMBDA r : IF r[1].ok /\ r[2].ok THEN Ok(r[1].v \o r[2].v) ELSE Thrown)

-----------------------------------------------------------------------------
(* Type resolver *)

builtInTypes == {"string", "anyURI", "dateTime", "date", "token", "ID", "IDREF", "NCName",
                 "decimal", "integer", "int", "long", "short", "byte", "float", "double",
                 "boolean"}

\* resolveBaseType at recursion depth d; "" stands for undefined.
RECURSIVE resolveBaseTypeAt(_, _)
resolveBaseTypeAt(typeName, d) ==
    IF typeName = <<>> THEN Ok("")
    ELSE LET bare == StripPrefix(typeName) IN
         IF bare \in builtInTypes THEN Ok(bare)
         ELSE IF d >= StackLimit
              THEN (IF oracle.throws THEN ThrownName ELSE Ok(bare))
              ELSE With(selectElements(QNamed("simpleType", bare), <<>>),
                   LAMBDA simpleTypes :
                   With(IF Len(simpleTypes) > 0
                        THEN selectElements(QChildren({"restriction"}), <<simpleTypes[1]>>)
                        ELSE <<>>,
                   LAMBDA restrictions :
                       IF Len(restrictions) > 0 /\ ElemOf(restrictions[1]).base # <<>>
                       THEN resolveBaseTypeAt(ElemOf(restrictions[1]).base, d + 1)
                       ELSE Ok(bare)))

resolveBaseType(typeName) == resolveBaseTypeAt(typeName, 0)

\* isEnumerationType looking at the root document only
isEnumerationTypeInRoot(typeName) ==
    IF typeName = <<>> \/ document = <<>> THEN FALSE
    ELSE LET simpleTypes == Select(QNamed("simpleType", StripPrefix(typeName)), document[1], 0)
         IN IF Len(simpleTypes) > 0
            THEN Len(Select(QEnumerations, simpleTypes[1].doc, simpleTypes[1].n)) > 0
            ELSE FALSE

isEnumerationType(typeName) ==
    IF typeName = <<>> THEN FALSE
    ELSE With(selectElements(QNamed("simpleType", StripPrefix(typeName)), <<>>),
              LAMBDA simpleTypes :
                  IF Len(simpleTypes) > 0
                  THEN Len(selectElements(QEnumerations, <<simpleTypes[1]>>)) > 0
                  ELSE FALSE)

-----------------------------------------------------------------------------
(* Node locator *)

NamePred(ax, l, name) ==
    IF name # "" THEN StepAttr(ax, {l}, "name", name) ELSE Step(ax, {l})

RECURSIVE EnclosingSimpleType(_, _)
EnclosingSimpleType(t, k) ==
    IF k = 0 THEN 0
    ELSE IF t[k].l = "simpleType" THEN k
    ELSE EnclosingSimpleType(t, t[k].p)

generateXPathForElement(el) ==
    With(Tree(el.doc.c),
         LAMBDA t :
    LET e == el.e IN
    IF e.l = "enumeration"
    THEN LET st == EnclosingSimpleType(t, e.p)
             leaf == [StepAttr("desc", {"enumeration"}, "value", e.value) EXCEPT !.q = TRUE]
         IN IF st # 0 /\ t[st].name # ""
            THEN Path(TRUE, <<StepAttr("desc", {"simpleType"}, "name", t[st].name), leaf>>)
            ELSE Path(TRUE, <<leaf>>)
    ELSE IF e.p = 0
    THEN Path(TRUE, <<NamePred("desc", e.l, e.name)>>)
    ELSE LET par == t[e.p]
             anchor ==
                 IF par.name # ""
                 THEN <<StepAttr("desc", {par.l}, "name", par.name)>>
                 ELSE IF par.p # 0 /\ t[par.p].name # ""
                 THEN <<StepAttr("desc", {t[par.p].l}, "name", t[par.p].name),
                        Step("child", {par.l})>>
                 ELSE <<Step("desc", {par.l})>>
         IN Path(TRUE, anchor \o <<NamePred("child", e.l, e.name)>>))

RECURSIVE FirstMatch(_, _)
FirstMatch(path, bindings) ==
    IF bindings = <<>> THEN [found |-> FALSE, target |-> <<>>, uri |-> "none"]
    ELSE With(Select(path, Head(bindings).doc, 0),
              LAMBDA result :
                  IF Len(result) > 0
                  THEN [found |-> TRUE, target |-> <<result[1]>>, uri |-> Head(bindings).uri]
                  ELSE FirstMatch(path, Tail(bindings)))

\* focusElement that looks into the imported documents before the root document
focusElementLookupImportsFirst(elementXpath) ==
    IF document = <<>> \/ editor = "none" \/ elementXpath = NoPath
    THEN [found |-> FALSE, target |-> <<>>, uri |-> "none"]
    ELSE With(FirstMatch(elementXpath, importedDocuments),
              LAMBDA imported :
                  IF imported.found THEN imported
                  ELSE With(Select(elementXpath, document[1], 0),
                            LAMBDA result :
                                IF Len(result) > 0
                                THEN [found |-> TRUE, target |-> <<result[1]>>, uri |-> editor]
                                ELSE imported))

\* focusElement up to the point where it opens the owning document: the
\* construct the locator resolves to and the document it is found in.
focusElementLookup(elementXpath) ==
    IF document = <<>> \/ editor = "none" \/ elementXpath = NoPath
    THEN [found |-> FALSE, target |-> <<>>, uri |-> "none"]
    ELSE With(Select(elementXpath, document[1], 0),
              LAMBDA result :
                  IF Len(result) > 0
                  THEN [found |-> TRUE, target |-> <<result[1]>>, uri |-> editor]
                  ELSE FirstMatch(elementXpath, importedDocuments))

\* A locator the XPath engine cannot parse: select() throws.
Malformed == Path(TRUE, <<Step("error", {})>>)

\* `return false` of focusElement: nothing opened, no selection made.
NotFocused == [returned |-> FALSE, target |-> <<>>, opened |-> "none", selection |-> <<>>]

\* focusElement(elementXpath) on the file system dsk: what it returns, the
\* document it opens and shows, and the line it puts the selection on (the
\* target's place in its document stands for its line).
focusElement(elementXpath, dsk) ==
    IF elementXpath = Malformed THEN NotFocused
    ELSE With(focusElementLookup(elementXpath),
              LAMBDA r :
                  IF ~r.found THEN NotFocused
                  ELSE IF r.uri # editor /\ dsk[r.uri].c = "absent" THEN NotFocused
                  ELSE [returned |-> TRUE, target |-> r.target, opened |-> r.uri,
                        selection |-> <<r.target[1].n>>])

-----------------------------------------------------------------------------
(* Tree builder *)

RECURSIVE OwnerUri(_, _)
OwnerUri(doc, bindings) ==
    IF bindings = <<>> THEN editor
    ELSE IF Head(bindings).doc = doc THEN Head(bindings).uri
    ELSE OwnerUri(doc, Tail(bindings))

createChoiceNode(choiceElement) ==
    [element |-> choiceElement, name |-> "<choice>", type |-> <<>>, baseType |-> "",
     hasChildren |-> Len(selectElements(QChildren({"element"}), <<choiceElement>>)) > 0,
     sourceUri |-> editor, xpath |-> NoPath]

createNode(element) ==
    LET type == element.e.type
        sourceUri ==
            IF document # <<>> /\ element.doc # document[1]
            THEN OwnerUri(element.doc, importedDocuments)
            ELSE editor
        hasTypeChildren ==
            IF type # <<>>
            THEN Len(selectElements(QTypeGroupElements(StripPrefix(type)), <<>>)) > 0
            ELSE FALSE
        hasDirectChildren ==
            \/ Len(selectElements(QChildren({"element"}), <<element>>)) > 0
            \/ Len(selectElements(QInlineGroupElements, <<element>>)) > 0
        hasExtensionChildren ==
            IF type # <<>>
            THEN Len(selectElements(QTypeExtensions(StripPrefix(type)), <<>>)) > 0
            ELSE FALSE
        isEnum == isEnumerationType(type)
    IN With(IF type # <<>> THEN resolveBaseType(type) ELSE Ok(""),
            LAMBDA baseType :
                IF ~baseType.ok THEN Thrown
                ELSE Ok(<<[element |-> element, name |-> element.e.name, type |-> type,
                           baseType |-> baseType.v,
                           hasChildren |-> hasTypeChildren \/ hasDirectChildren
                                           \/ hasExtensionChildren \/ isEnum,
                           sourceUri |-> sourceUri,
                           xpath |-> generateXPathForElement(element)]>>))

\* The loop body shared by getChildNodes and getTypeChildren: an element
\* becomes a node, a choice a choice node, anything else nothing.
MemberNode(el) ==
    IF ElemOf(el).l = "element" THEN createNode(el)
    ELSE IF ElemOf(el).l = "choice" THEN Ok(<<createChoiceNode(el)>>)
    ELSE Ok(<<>>)

RECURSIVE MemberNodes(_)
MemberNodes(els) ==
    IF els = <<>> THEN Ok(<<>>)
    ELSE Cat(MemberNode(Head(els)), MemberNodes(Tail(els)))

GroupMembers(group) ==
    With(selectElements(QChildren({"element", "choice"}), <<group>>),
         LAMBDA elements : MemberNodes(elements))

RECURSIVE EachGroupMembers(_)
EachGroupMembers(groups) ==
    IF groups = <<>> THEN Ok(<<>>)
    ELSE Cat(GroupMembers(Head(groups)), EachGroupMembers(Tail(groups)))

\* groups.forEach of getTypeChildren: a choice group is one choice node.
OwnGroup(group) ==
    IF ElemOf(group).l = "choice" THEN Ok(<<createChoiceNode(group)>>)
    ELSE GroupMembers(group)

RECURSIVE OwnGroups(_)
OwnGroups(groups) ==
    IF groups = <<>> THEN Ok(<<>>)
    ELSE Cat(OwnGroup(Head(groups)), OwnGroups(Tail(groups)))

RECURSIVE getTypeChildrenAt(_, _)
RECURSIVE ExtensionMembers(_, _)

\* for (const extension of extensions) { ... } of getTypeChildren
ExtensionMembers(extensions, d) ==
    IF extensions = <<>> THEN Ok(<<>>)
    ELSE LET extension == Head(extensions)
             baseType == ElemOf(extension).base
             inherited ==
                 With(IF baseType # <<>>
                      THEN selectElements(QNamed("complexType", StripPrefix(baseType)), <<>>)
                      ELSE <<>>,
                      LAMBDA baseTypeElements :
                          IF Len(baseTypeElements) > 0
                          THEN getTypeChildrenAt(baseTypeElements[1], d + 1)
                          ELSE Ok(<<>>))
             added == With(selectElements(QChildren(Groups), <<extension>>),
                           LAMBDA extensionGroups : EachGroupMembers(extensionGroups))
         IN Cat(Cat(inherited, added), ExtensionMembers(Tail(extensions), d))

\* getTypeChildren with the type's own groups ahead of what it inherits
getTypeChildrenOwnFirst(complexType, d) ==
    IF d >= StackLimit
    THEN (IF oracle.throws THEN Thrown ELSE Ok(<<>>))
    ELSE Cat(With(selectElements(QChildren(Groups), <<complexType>>),
                  LAMBDA groups : OwnGroups(groups)),
             Cat(With(selectElements(QExtensions, <<complexType>>),
                      LAMBDA extensions : ExtensionMembers(extensions, d)),
                 With(selectElements(QChildren({"element", "choice"}), <<complexType>>),
                      LAMBDA directElements : MemberNodes(directElements))))

getTypeChildrenAt(complexType, d) ==
    IF d >= StackLimit
    THEN (IF oracle.throws THEN Thrown ELSE Ok(<<>>))
    ELSE Cat(With(selectElements(QExtensions, <<complexType>>),
                  LAMBDA extensions : ExtensionMembers(extensions, d)),
             Cat(With(selectElements(QChildren(Groups), <<complexType>>),
                      LAMBDA groups : OwnGroups(groups)),
                 With(selectElements(QChildren({"element", "choice"}), <<complexType>>),
                      LAMBDA directElements : MemberNodes(directElements))))

getTypeChildren(complexType) == getTypeChildrenAt(complexType, 0)

\* an enumeration leaf that claims to have children
EnumerationLeafExpandable(enumElement) ==
    [element |-> enumElement, name |-> ElemOf(enumElement).value, type |-> <<>>,
     baseType |-> "", hasChildren |-> TRUE, sourceUri |-> editor,
     xpath |-> generateXPathForElement(enumElement)]

EnumerationLeaf(enumElement) ==
    [element |-> enumElement, name |-> ElemOf(enumElement).value, type |-> <<>>,
     baseType |-> "", hasChildren |-> FALSE, sourceUri |-> editor,
     xpath |-> generateXPathForElement(enumElement)]

\* directChildren.forEach of getChildNodes
DirectChild(child) ==
    LET l == ElemOf(child).l IN
    IF l = "element" THEN createNode(child)
    ELSE IF l = "choice" THEN Ok(<<createChoiceNode(child)>>)
    ELSE IF l \in {"sequence", "all"} THEN GroupMembers(child)
    ELSE IF l = "complexType" THEN getTypeChildren(child)
    ELSE Ok(<<>>)

RECURSIVE DirectChildren(_)
DirectChildren(els) ==
    IF els = <<>> THEN Ok(<<>>)
    ELSE Cat(DirectChild(Head(els)), DirectChildren(Tail(els)))

getChildNodes(parent) ==
    LET e == ElemOf(parent)
        typeName == e.type
        inline ==
            With(IF e.l = "element"
                 THEN selectElements(QChildren({"complexType"}), <<parent>>)
                 ELSE <<>>,
                 LAMBDA inlineComplexTypes :
                     IF Len(inlineComplexTypes) > 0
                     THEN getTypeChildren(inlineComplexTypes[1])
                     ELSE Ok(<<>>))
        enumerations ==
            IF e.l = "element" /\ typeName # <<>> /\ isEnumerationType(<<StripPrefix(typeName)>>)
            THEN With(selectElements(QNamed("simpleType", StripPrefix(typeName)), <<>>),
                      LAMBDA simpleTypes :
                          IF Len(simpleTypes) > 0
                          THEN selectElements(QEnumerations, <<simpleTypes[1]>>)
                          ELSE <<>>)
            ELSE <<>>
        typed ==
            With(IF typeName # <<>>
                 THEN selectElements(QNamed("complexType", StripPrefix(typeName)), <<>>)
                 ELSE <<>>,
                 LAMBDA typeElements :
                     IF Len(typeElements) > 0 THEN getTypeChildren(typeElements[1])
                     ELSE Ok(<<>>))
        direct == With(selectElements(QChildren({}), <<parent>>),
                       LAMBDA directChildren : DirectChildren(directChildren))
    IN With(inline,
            LAMBDA children :
                IF ~children.ok THEN Thrown
                ELSE IF Len(children.v) > 0 THEN children
                ELSE With(enumerations,
                          LAMBDA values :
                              IF Len(values) > 0
                              THEN Ok([i \in 1..Len(values) |-> EnumerationLeaf(values[i])])
                              ELSE Cat(typed, direct)))

getRootNodes ==
    With(selectElements(QRootElements, <<>>), LAMBDA elements : MemberNodes(elements))

\* getChildren without the test of line 360
getChildrenOfAny(node) ==
    IF ~isXsdDocument \/ document = <<>> THEN Ok(<<>>)
    ELSE IF node # <<>> THEN getChildNodes(node[1].element)
    ELSE getRootNodes

\* getChildren(node?): node is <<>> or <<node>>.
getChildren(node) ==
    IF ~isXsdDocument \/ document = <<>> THEN Ok(<<>>)
    ELSE IF node # <<>>
    THEN (IF ~node[1].hasChildren THEN Ok(<<>>) ELSE getChildNodes(node[1].element))
    ELSE getRootNodes

-----------------------------------------------------------------------------
(* The host: editors, their buffers, and the files of the workspace /w *)

EditorUris == {"/w/a.xsd", "/w/p.xsd", "/w/n.txt"}

languageId(u) == IF u = "/w/n.txt" THEN "plaintext" ELSE "xml"

\* The texts an editor's buffer takes in the model.
Buffers(u) ==
    CASE u = "/w/a.xsd" -> {"main", "bad"}
      [] u = "/w/p.xsd" -> {"plain", "cyc", "note"}
      [] OTHER -> {"note"}

Paths == {"/w/b.xsd", "/w/c.xsd", "/w/lib/d.xsd"}

\* The contents another program gives a file in the model; only b.xsd changes.
FileContents(p) ==
    CASE p = "/w/b.xsd" -> {"b", "bad"}
      [] OTHER -> {}

Exists(dsk, p) == p \in Paths /\ dsk[p].c # "absent"

\* path.isAbsolute(location)
isAbsolute(location) == location = "/w/c.xsd"

\* path.join(path.dirname(baseUri.fsPath), location); every editor is in /w
JoinBase(baseUri, location) ==
    CASE location = "b.xsd" -> "/w/b.xsd"
      [] location = "c.xsd" -> "/w/c.xsd"
      [] location = "d.xsd" -> "/w/d.xsd"
      [] location = "missing.xsd" -> "/w/missing.xsd"
      [] OTHER -> location

\* vscode.Uri.parse(location).fsPath: a location without a scheme is read as
\* a file uri, its path made absolute
ParsedFsPath(location) ==
    CASE location = "b.xsd" -> "/b.xsd"
      [] location = "c.xsd" -> "/c.xsd"
      [] location = "d.xsd" -> "/d.xsd"
      [] location = "missing.xsd" -> "/missing.xsd"
      [] OTHER -> location

\* vscode.workspace.findFiles(`**/${location}`)
findFiles(dsk, location) ==
    LET hit == CASE location = "b.xsd" -> "/w/b.xsd"
                 [] location = "c.xsd" -> "/w/c.xsd"
                 [] location = "d.xsd" -> "/w/lib/d.xsd"
                 [] OTHER -> "none"
    IN IF Exists(dsk, hit) THEN <<hit>> ELSE <<>>

\* The namespace test of parseDocument (lines 88-91).
classify(c) ==
    /\ RootNodeName(c) \in {"schema", "xs:schema", "xsd:schema"}
    /\ InXsdNamespace(c) \/ HasXmlnsXs(c)

-----------------------------------------------------------------------------
(* Document store *)

\* last.ev tells how the step just taken ended a recomputation: "reset" (no
\* xml editor, lines 53-60), "same" (parseDocument skipped, line 62), "parsed"
\* (parseDocument ran to its end) or "none" (no recomputation ended). kept:
\* the document was a schema when the recomputation was triggered and is one
\* at its end; fired: the step fired onDidChangeTreeData; reports: the
\* showErrorMessage calls of the recomputation.
NoLast == [ev |-> "none", kept |-> FALSE, fired |-> FALSE, reports |-> {}]
NoCall == [op |-> "none", arg |-> <<>>, res |-> Ok(<<>>)]

Report(loc, msg) == [loc |-> loc, msg |-> msg]

IsSchemaText(act, txt) ==
    /\ act # "none"
    /\ languageId(act) = "xml"
    /\ Parses(txt[act])
    /\ classify(txt[act])

\* a map that keeps the binding a namespace already has
MapSetKeepFirst(bindings, b) ==
    IF \E i \in 1..Len(bindings) : bindings[i].ns = b.ns THEN bindings
    ELSE Append(bindings, b)

\* Map.prototype.set on a Map kept in insertion order
RECURSIVE MapSet(_, _)
MapSet(bindings, b) ==
    IF bindings = <<>> THEN <<b>>
    ELSE IF Head(bindings).ns = b.ns THEN <<b>> \o Tail(bindings)
    ELSE <<Head(bindings)>> \o MapSet(Tail(bindings), b)

\* The directives a recomputation walks through (line 105), as the
\* attributes handleImportElement reads from each.
RECURSIVE Directives(_)
Directives(els) ==
    IF els = <<>> THEN <<>>
    ELSE <<[ns |-> ElemOf(Head(els)).ns, loc |-> ElemOf(Head(els)).loc]>>
         \o Directives(Tail(els))

\* handleImportElement returns at once for a directive without schemaLocation
RECURSIVE SkipUnlocated(_)
SkipUnlocated(todo) ==
    IF todo # <<>> /\ Head(todo).loc = "" THEN SkipUnlocated(Tail(todo)) ELSE todo

\* resolveSchemaLocation starts at the first fs.promises.access it awaits
FirstAccess(location) == IF isAbsolute(location) THEN "access2" ELSE "access1"

RemoveAt(seq, i) == [j \in 1..(Len(seq) - 1) |-> IF j < i THEN seq[j] ELSE seq[j + 1]]

\* A trigger that resets the state supersedes the recomputations in flight.
Superseded(ts) == [j \in 1..Len(ts) |-> [ts[j] EXCEPT !.latest = FALSE]]

\* A variant of checkDocument whose failed parse keeps the classification
\* the provider had before
checkDocumentKeepingFlag(act, txt, forceRefresh) ==
    LET wasXsd == isXsdDocument
        isXml == act # "none" /\ languageId(act) = "xml"
        reparse == forceRefresh \/ editor # act
        c == txt[act]
        doc == [u |-> act, c |-> c, v |-> 0]
        xsd == Parses(c) /\ classify(c)
        \* selectElements of line 105 runs right after resetState: the root only
        todo == IF xsd THEN SkipUnlocated(Directives(Select(QImports, doc, 0))) ELSE <<>>
        kept == wasXsd /\ IsSchemaText(act, txt)
    IN
    IF ~isXml
    THEN /\ document' = <<>>
         /\ editor' = "none"
         /\ isXsdDocument' = FALSE
         /\ importedDocuments' = <<>>
         /\ context' = IF wasXsd THEN FALSE ELSE context
         /\ tasks' = Superseded(tasks)
         /\ last' = [ev |-> "reset", kept |-> FALSE, fired |-> wasXsd, reports |-> {}]
    ELSE IF ~reparse
    THEN /\ UNCHANGED <<document, editor, isXsdDocument, importedDocuments, context, tasks>>
         /\ last' = [ev |-> "same", kept |-> kept /\ isXsdDocument, fired |-> FALSE,
                     reports |-> {}]
    ELSE IF todo = <<>>
    THEN /\ document' = IF Parses(c) THEN <<doc>> ELSE <<>>
         /\ editor' = act
         /\ isXsdDocument' = IF Parses(c) THEN xsd ELSE wasXsd
         /\ importedDocuments' = <<>>
         /\ context' = IF wasXsd # xsd THEN xsd ELSE context
         /\ tasks' = Superseded(tasks)
         /\ last' = [ev |-> "parsed", kept |-> kept /\ xsd, fired |-> wasXsd # xsd,
                     reports |-> IF Parses(c) THEN {} ELSE {Report("", "parse")}]
    ELSE /\ Len(tasks) < MaxTasks
         /\ document' = <<doc>>
         /\ editor' = act
         /\ isXsdDocument' = TRUE
         /\ importedDocuments' = <<>>
         /\ context' = context
         /\ tasks' = Append(Superseded(tasks),
                            [wasXsd |-> wasXsd, base |-> act, todo |-> todo,
                             pc |-> FirstAccess(Head(todo).loc), uri |-> "none",
                             mtime |-> 0, reports |-> {}, latest |-> TRUE])
         /\ last' = NoLast

\* checkDocument(forceRefresh) from its call to its first suspension at a
\* file-system read, or to its end when it never suspends. act and txt are
\* the active editor and the buffers the call finds.
checkDocument(act, txt, forceRefresh) ==
    LET wasXsd == isXsdDocument
        isXml == act # "none" /\ languageId(act) = "xml"
        reparse == forceRefresh \/ editor # act
        c == txt[act]
        doc == [u |-> act, c |-> c, v |-> 0]
        xsd == Parses(c) /\ classify(c)
        \* selectElements of line 105 runs right after resetState: the root only
        todo == IF xsd THEN SkipUnlocated(Directives(Select(QImports, doc, 0))) ELSE <<>>
        kept == wasXsd /\ IsSchemaText(act, txt)
    IN
    IF ~isXml
    THEN /\ document' = <<>>
         /\ editor' = "none"
         /\ isXsdDocument' = FALSE
         /\ importedDocuments' = <<>>
         /\ context' = IF wasXsd THEN FALSE ELSE context
         /\ tasks' = Superseded(tasks)
         /\ last' = [ev |-> "reset", kept |-> FALSE, fired |-> wasXsd, reports |-> {}]
    ELSE IF ~reparse
    THEN /\ UNCHANGED <<document, editor, isXsdDocument, importedDocuments, context, tasks>>
         /\ last' = [ev |-> "same", kept |-> kept /\ isXsdDocument, fired |-> FALSE,
                     reports |-> {}]
    ELSE IF todo = <<>>
    THEN /\ document' = IF Parses(c) THEN <<doc>> ELSE <<>>
         /\ editor' = act
         /\ isXsdDocument' = xsd
         /\ importedDocuments' = <<>>
         /\ context' = IF wasXsd # xsd THEN xsd ELSE context
         /\ tasks' = Superseded(tasks)
         /\ last' = [ev |-> "parsed", kept |-> kept /\ xsd, fired |-> wasXsd # xsd,
                     reports |-> IF Parses(c) THEN {} ELSE {Report("", "parse")}]
    ELSE /\ Len(tasks) < MaxTasks
         /\ document' = <<doc>>
         /\ editor' = act
         /\ isXsdDocument' = TRUE
         /\ importedDocuments' = <<>>
         /\ context' = context
         /\ tasks' = Append(Superseded(tasks),
                            [wasXsd |-> wasXsd, base |-> act, todo |-> todo,
                             pc |-> FirstAccess(Head(todo).loc), uri |-> "none",
                             mtime |-> 0, reports |-> {}, latest |-> TRUE])
         /\ last' = NoLast

\* A variant of NextImport whose last directive ends without publishing
NextImportSilent(i, t, imported) ==
    LET todo == SkipUnlocated(Tail(t.todo))
    IN
    /\ importedDocuments' = imported
    /\ context' = context
    /\ IF todo = <<>>
       THEN /\ tasks' = RemoveAt(tasks, i)
            /\ last' = [ev |-> "parsed",
                        kept |-> t.wasXsd /\ isXsdDocument /\ IsSchemaText(active, text),
                        fired |-> t.wasXsd # isXsdDocument, reports |-> t.reports]
       ELSE /\ tasks' = [tasks EXCEPT ![i] = [t EXCEPT !.todo = todo,
                                                       !.pc = FirstAccess(Head(todo).loc)]]
            /\ last' = NoLast

\* The loop of loadImportedSchemas moves on to the next directive; after the
\* last one parseDocument returns and checkDocument publishes (lines 66-69).
NextImport(i, t, imported) ==
    LET todo == SkipUnlocated(Tail(t.todo))
        changed == t.wasXsd # isXsdDocument
    IN
    /\ importedDocuments' = imported
    /\ IF todo = <<>>
       THEN /\ tasks' = RemoveAt(tasks, i)
            /\ context' = IF changed THEN isXsdDocument ELSE context
            /\ last' = [ev |-> "parsed",
                        kept |-> t.wasXsd /\ isXsdDocument /\ IsSchemaText(active, text),
                        fired |-> changed, reports |-> t.reports]
       ELSE /\ tasks' = [tasks EXCEPT ![i] = [t EXCEPT !.todo = todo,
                                                       !.pc = FirstAccess(Head(todo).loc)]]
            /\ context' = context
            /\ last' = NoLast

Suspend(i, t) ==
    /\ tasks' = [tasks EXCEPT ![i] = t]
    /\ last' = NoLast
    /\ UNCHANGED <<importedDocuments, context>>

\* this.importedDocuments.set(namespace, {doc, uri}) of line 124
Bound(t, doc) ==
    MapSet(importedDocuments,
           [ns |-> Head(t.todo).ns, doc |-> doc, uri |-> t.uri, stale |-> ~t.latest])

\* A failed load that gives up on the directives still to come
LoadFailedForAll(t) ==
    [t EXCEPT !.reports = @ \cup {Report(Head(t.todo).loc, "document"),
                                  Report(Head(t.todo).loc, "load")},
              !.todo = <<Head(t.todo)>>]

\* The catch of loadSchemaDocumentWithCache and the else of line 125
LoadFailed(t) ==
    [t EXCEPT !.reports = @ \cup {Report(Head(t.todo).loc, "document"),
                                  Report(Head(t.todo).loc, "load")}]

-----------------------------------------------------------------------------
(* Actions: the host's events *)

host == <<active, text, disk>>

\* activate(): the constructor subscribes and calls checkDocument(); the
\* setContext(false) that follows it precedes anything checkDocument publishes.
Activate ==
    /\ ~activated
    /\ activated' = TRUE
    /\ checkDocument(active, text, FALSE)
    /\ UNCHANGED <<host, importedSchemaCache, oracle, call, decorations>>

\* onDidChangeActiveTextEditor
ChangeActiveEditor(u) ==
    /\ activated
    /\ u # active
    /\ active' = u
    /\ checkDocument(u, text, FALSE)
    /\ UNCHANGED <<activated, text, disk, importedSchemaCache, oracle, call, decorations>>

\* onDidChangeTextDocument (of any open document)
ChangeTextDocument(u, c) ==
    /\ activated
    /\ c # text[u]
    /\ text' = [text EXCEPT ![u] = c]
    /\ checkDocument(active, text', FALSE)
    /\ UNCHANGED <<activated, active, disk, importedSchemaCache, oracle, call, decorations>>

\* the command xsdOutline.refresh
Refresh ==
    /\ activated
    /\ checkDocument(active, text, TRUE)
    /\ UNCHANGED <<activated, host, importedSchemaCache, oracle, call, decorations>>

\* Another program writes or removes a file of the workspace.
WriteFile(p, c) ==
    /\ disk[p].m < MaxMtime
    /\ c # disk[p].c
    /\ disk' = [disk EXCEPT ![p] = [c |-> c, m |-> disk[p].m + 1]]
    /\ last' = NoLast
    /\ UNCHANGED <<activated, active, text, provider, tasks, context, oracle, call, decorations>>

DeleteFile(p) ==
    /\ disk[p].m < MaxMtime
    /\ FileContents(p) # {}
    /\ Exists(disk, p)
    /\ disk' = [disk EXCEPT ![p] = [c |-> "absent", m |-> disk[p].m]]
    /\ last' = NoLast
    /\ UNCHANGED <<activated, active, text, provider, tasks, context, oracle, call, decorations>>

-----------------------------------------------------------------------------
(* Actions: a suspended recomputation resumes after a file-system read *)

stepFrame == <<activated, host, document, editor, isXsdDocument, oracle, call, decorations>>

\* await fs.promises.access(fullPath) of line 140
Access1(i) ==
    LET t == tasks[i]
        fullPath == JoinBase(t.base, Head(t.todo).loc)
    IN
    /\ t.pc = "access1"
    /\ IF Exists(disk, fullPath)
       THEN Suspend(i, [t EXCEPT !.uri = fullPath, !.pc = "stat"])
       ELSE Suspend(i, [t EXCEPT !.pc = "access2"])
    /\ UNCHANGED <<stepFrame, importedSchemaCache>>

\* await fs.promises.access(uri.fsPath) of line 149
Access2(i) ==
    LET t == tasks[i]
        fsPath == ParsedFsPath(Head(t.todo).loc)
    IN
    /\ t.pc = "access2"
    /\ IF Exists(disk, fsPath)
       THEN Suspend(i, [t EXCEPT !.uri = fsPath, !.pc = "stat"])
       ELSE Suspend(i, [t EXCEPT !.pc = "find"])
    /\ UNCHANGED <<stepFrame, importedSchemaCache>>

\* await vscode.workspace.findFiles of line 155, and lines 117-120
FindFiles(i) ==
    LET t == tasks[i]
        location == Head(t.todo).loc
        files == findFiles(disk, location)
    IN
    /\ t.pc = "find"
    /\ IF Len(files) > 0
       THEN Suspend(i, [t EXCEPT !.uri = files[1], !.pc = "stat"])
       ELSE NextImport(i, [t EXCEPT !.reports = @ \cup {Report(location, "find")}],
                       importedDocuments)
    /\ UNCHANGED <<stepFrame, importedSchemaCache>>

\* await fs.promises.stat of line 170 and the cache test of lines 171-174
Stat(i) ==
    LET t == tasks[i]
        cached == importedSchemaCache[t.uri]
    IN
    /\ t.pc = "stat"
    /\ IF ~Exists(disk, t.uri)
       THEN NextImport(i, LoadFailed(t), importedDocuments)
       ELSE IF cached # <<>> /\ cached[1].mtimeMs = disk[t.uri].m
       THEN NextImport(i, t, Bound(t, cached[1].doc))
       ELSE Suspend(i, [t EXCEPT !.mtime = disk[t.uri].m, !.pc = "read"])
    /\ UNCHANGED <<stepFrame, importedSchemaCache>>

\* await fs.promises.readFile of line 175, the parse and lines 177-178, 122-124
ReadFile(i) ==
    LET t == tasks[i]
        content == disk[t.uri].c
        doc == [u |-> t.uri, c |-> content, v |-> disk[t.uri].m]
    IN
    /\ t.pc = "read"
    /\ IF ~Exists(disk, t.uri) \/ ~Parses(content)
       THEN /\ NextImport(i, LoadFailed(t), importedDocuments)
            /\ UNCHANGED importedSchemaCache
       ELSE /\ importedSchemaCache' =
                   [importedSchemaCache EXCEPT ![t.uri] = <<[doc |-> doc, mtimeMs |-> t.mtime]>>]
            /\ NextImport(i, t, Bound(t, doc))
    /\ UNCHANGED stepFrame

-----------------------------------------------------------------------------
(* The provider in operation *)

\* The decoration provider as constructed: both maps empty, no key issued.
NoDecorations ==
    /\ occurrences = << >>
    /\ nillableNodes = {}
    /\ nodeIds = 0

InitialText ==
    [u \in EditorUris |->
        CASE u = "/w/a.xsd" -> "main" [] u = "/w/p.xsd" -> "plain" [] OTHER -> "note"]

InitialDisk ==
    [p \in Paths |->
        [c |-> CASE p = "/w/b.xsd" -> "b" [] p = "/w/c.xsd" -> "c" [] OTHER -> "b", m |-> 1]]

Init ==
    /\ activated = FALSE
    /\ active \in {"none", "/w/a.xsd"}
    /\ text = InitialText
    /\ disk = InitialDisk
    /\ document = <<>>
    /\ editor = "none"
    /\ isXsdDocument = FALSE
    /\ importedDocuments = <<>>
    /\ importedSchemaCache = [p \in Paths |-> <<>>]
    /\ tasks = <<>>
    /\ context = FALSE
    /\ last = NoLast
    /\ oracle = [throws |-> FALSE, slack |-> 0]
    /\ call = NoCall
    /\ NoDecorations

Next ==
    \/ Activate
    \/ \E u \in EditorUris : ChangeActiveEditor(u)
    \/ \E u \in EditorUris : \E c \in Buffers(u) : ChangeTextDocument(u, c)
    \/ Refresh
    \/ \E p \in Paths : \E c \in FileContents(p) : WriteFile(p, c)
    \/ \E p \in Paths : DeleteFile(p)
    \/ \E i \in 1..Len(tasks) : Access1(i)
    \/ \E i \in 1..Len(tasks) : Access2(i)
    \/ \E i \in 1..Len(tasks) : FindFiles(i)
    \/ \E i \in 1..Len(tasks) : Stat(i)
    \/ \E i \in 1..Len(tasks) : ReadFile(i)

Spec == Init /\ [][Next]_vars

-----------------------------------------------------------------------------
(* One recomputation at a time on a file system that holds still while it  *)
(* runs: the host's events arrive only when no checkDocument() is suspended. *)

SoloNext ==
    \/ tasks = <<>> /\ Activate
    \/ tasks = <<>> /\ \E u \in EditorUris : ChangeActiveEditor(u)
    \/ tasks = <<>> /\ \E u \in EditorUris : \E c \in Buffers(u) : ChangeTextDocument(u, c)
    \/ tasks = <<>> /\ Refresh
    \/ tasks = <<>> /\ \E p \in Paths : \E c \in FileContents(p) : WriteFile(p, c)
    \/ tasks = <<>> /\ \E p \in Paths : DeleteFile(p)
    \/ \E i \in 1..Len(tasks) : Access1(i)
    \/ \E i \in 1..Len(tasks) : Access2(i)
    \/ \E i \in 1..Len(tasks) : FindFiles(i)
    \/ \E i \in 1..Len(tasks) : Stat(i)
    \/ \E i \in 1..Len(tasks) : ReadFile(i)

SpecSolo == Init /\ [][SoloNext]_vars

-----------------------------------------------------------------------------
(* The host's events in every interleaving with the recomputations in      *)
(* flight, on a file system nobody writes to in the meantime.              *)

StillNext ==
    \/ Activate
    \/ \E u \in EditorUris : ChangeActiveEditor(u)
    \/ \E u \in EditorUris : \E c \in Buffers(u) : ChangeTextDocument(u, c)
    \/ Refresh
    \/ \E i \in 1..Len(tasks) : Access1(i)
    \/ \E i \in 1..Len(tasks) : Access2(i)
    \/ \E i \in 1..Len(tasks) : FindFiles(i)
    \/ \E i \in 1..Len(tasks) : Stat(i)
    \/ \E i \in 1..Len(tasks) : ReadFile(i)

SpecStill == Init /\ [][StillNext]_vars

-----------------------------------------------------------------------------
(* The document set a recomputation that runs alone leaves behind           *)

\* resolveSchemaLocation on a file system that holds still: <<uri>> or <<>>
resolveSchemaLocation(baseUri, location, dsk) ==
    IF ~isAbsolute(location) /\ Exists(dsk, JoinBase(baseUri, location))
    THEN <<JoinBase(baseUri, location)>>
    ELSE IF Exists(dsk, ParsedFsPath(location))
    THEN <<ParsedFsPath(location)>>
    ELSE findFiles(dsk, location)

\* loadSchemaDocumentWithCache: <<document>> or <<>>. A cache entry whose
\* mtime is the file's holds the parse of the file's content.
loadSchemaDocumentWithCache(uri, dsk) ==
    IF Exists(dsk, uri) /\ Parses(dsk[uri].c)
    THEN <<[u |-> uri, c |-> dsk[uri].c, v |-> dsk[uri].m]>>
    ELSE <<>>

\* Why a directive fails, if it does: "find", "load" or "" (it is bound).
Failure(d, baseUri, dsk) ==
    LET uri == resolveSchemaLocation(baseUri, d.loc, dsk) IN
    IF uri = <<>> THEN "find"
    ELSE IF loadSchemaDocumentWithCache(uri[1], dsk) = <<>> THEN "load"
    ELSE ""

\* The directives of the root that take part in a recomputation, in order.
RootDirectives(doc) ==
    LET all == Directives(Select(QImports, doc, 0))
    IN SelectSeq(all, LAMBDA d : d.loc # "")

\* The bindings a list of directives leaves when every one of them loads.
RECURSIVE BindAll(_, _, _, _)
BindAll(ds, baseUri, dsk, bindings) ==
    IF ds = <<>> THEN bindings
    ELSE LET uri == resolveSchemaLocation(baseUri, Head(ds).loc, dsk)[1]
         IN BindAll(Tail(ds), baseUri, dsk,
                    MapSet(bindings, [ns |-> Head(ds).ns,
                                      doc |-> loadSchemaDocumentWithCache(uri, dsk)[1],
                                      uri |-> uri, stale |-> FALSE]))

\* The failing directives do not take part.
SettledBindings(doc, dsk) ==
    BindAll(SelectSeq(RootDirectives(doc), LAMBDA d : Failure(d, doc.u, dsk) = ""),
            doc.u, dsk, <<>>)

\* The showErrorMessage calls of handleImportElement and of
\* loadSchemaDocumentWithCache for the failing directives.
SettledReports(doc, dsk) ==
    LET ds == RootDirectives(doc) IN
    {Report(ds[i].loc, "find") : i \in {j \in 1..Len(ds) : Failure(ds[j], doc.u, dsk) = "find"}}
    \cup {Report(ds[i].loc, "document") :
              i \in {j \in 1..Len(ds) : Failure(ds[j], doc.u, dsk) = "load"}}
    \cup {Report(ds[i].loc, "load") :
              i \in {j \in 1..Len(ds) : Failure(ds[j], doc.u, dsk) = "load"}}

\* Every file a directive loaded is cached, bound or not.
SettledCache(doc, dsk) ==
    LET ds == RootDirectives(doc)
        Loads(p) == \E i \in 1..Len(ds) :
                        /\ Failure(ds[i], doc.u, dsk) = ""
                        /\ resolveSchemaLocation(doc.u, ds[i].loc, dsk) = <<p>>
    IN [p \in Paths |->
           IF Loads(p) THEN <<[doc |-> loadSchemaDocumentWithCache(p, dsk)[1],
                               mtimeMs |-> dsk[p].m]>>
           ELSE <<>>]

-----------------------------------------------------------------------------
(* The tree view and the commands query a provider at rest                  *)

MaxSlack == 1       \* how much earlier than MaxStack the stack may be full

\* The provider is queried after its first recomputation for an editor has
\* ended. The editors it is queried on, with their texts:
TreeRoots == {<<"/w/a.xsd", "main">>, <<"/w/p.xsd", "plain">>, <<"/w/p.xsd", "cyc">>,
              <<"/w/p.xsd", "ext">>, <<"/w/p.xsd", "note">>}

\* The states b.xsd is in while the provider is queried.
TreeDisks ==
    {InitialDisk,
     [InitialDisk EXCEPT !["/w/b.xsd"] = [c |-> "bad", m |-> 2]],
     [InitialDisk EXCEPT !["/w/b.xsd"] = [c |-> "absent", m |-> 1]]}

\* The type references resolveBaseType and isEnumerationType are asked about.
TypeRefs == {<<>>, <<"StatusEnum">>, <<"Dup">>, <<"n", "Dup">>, <<"Code">>, <<"Color">>,
             <<"xs", "string">>, <<"T">>, <<"U">>, <<"Nope">>}

TreeInit ==
    \E r \in TreeRoots : \E dsk \in TreeDisks :
        LET doc == [u |-> r[1], c |-> r[2], v |-> 0]
            xsd == classify(r[2])
            bindings == IF xsd THEN SettledBindings(doc, dsk) ELSE <<>>
        IN
        /\ activated = TRUE
        /\ active = r[1]
        /\ text = [InitialText EXCEPT ![r[1]] = r[2]]
        /\ disk = dsk
        /\ document = <<doc>>
        /\ editor = r[1]
        /\ isXsdDocument = xsd
        /\ importedDocuments = bindings
        /\ importedSchemaCache = IF xsd THEN SettledCache(doc, dsk) ELSE [p \in Paths |-> <<>>]
        /\ tasks = <<>>
        /\ context = xsd
        /\ last = [ev |-> "parsed", kept |-> FALSE, fired |-> xsd,
                    reports |-> IF xsd THEN SettledReports(doc, dsk) ELSE {}]
        /\ oracle \in [throws : BOOLEAN, slack : 0..MaxSlack]
        /\ call = NoCall
        /\ NoDecorations

callFrame == <<activated, host, provider, tasks, context, last, oracle, decorations>>

\* a root query that drops the import bindings on the way
GetRootChildrenForgetting ==
    /\ call' = [op |-> "getChildren", arg |-> <<>>, res |-> getChildren(<<>>)]
    /\ importedDocuments' = <<>>
    /\ UNCHANGED <<activated, host, document, editor, isXsdDocument, importedSchemaCache,
                   tasks, context, last, oracle, decorations>>

\* the view asks for the root nodes
GetRootChildren ==
    /\ call' = [op |-> "getChildren", arg |-> <<>>, res |-> getChildren(<<>>)]
    /\ UNCHANGED callFrame

\* The nodes the last getChildren handed out.
Given == IF call.op = "getChildren" /\ call.res.ok THEN call.res.v ELSE <<>>

\* the view, or another caller, asks for the children of a node it was given
GetNodeChildren(i) ==
    /\ call' = [op |-> "getChildren", arg |-> <<Given[i]>>, res |-> getChildren(<<Given[i]>>)]
    /\ UNCHANGED callFrame

\* the command xsdOutline.focusElement on a node the view was given
FocusElement(i) ==
    /\ call' = [op |-> "focusElement", arg |-> <<Given[i]>>,
                res |-> focusElementLookup(Given[i].xpath)]
    /\ UNCHANGED callFrame

ResolveBaseType(t) ==
    /\ isXsdDocument
    /\ call' = [op |-> "resolveBaseType", arg |-> t, res |-> resolveBaseType(t)]
    /\ UNCHANGED callFrame

IsEnumerationType(t) ==
    /\ isXsdDocument
    /\ call' = [op |-> "isEnumerationType", arg |-> t, res |-> Ok(isEnumerationType(t))]
    /\ UNCHANGED callFrame

\* The locators the command xsdOutline.openSelection is run with.
Locators ==
    {NoPath, Malformed,
     QNamed("simpleType", "Dup"), QNamed("simpleType", "StatusEnum"),
     QNamed("simpleType", "Code"), QNamed("simpleType", "Nope"),
     Path(TRUE, <<Step("desc", {"enumeration"})>>)}

\* the command xsdOutline.openSelection with a locator of the caller's
OpenSelection(elementXpath) ==
    /\ call' = [op |-> "openSelection", arg |-> elementXpath,
                res |-> focusElement(elementXpath, disk)]
    /\ UNCHANGED callFrame

\* The unscoped queries selectElements is asked.
GlobalQueries ==
    {QRootElements, QImports, QNamed("simpleType", "Dup"), QNamed("simpleType", "StatusEnum"),
     QNamed("complexType", "C"), QNamed("complexType", "Nope"),
     Path(TRUE, <<Step("desc", {"simpleType"})>>)}

\* a caller inside the provider runs an unscoped query
SelectElements(xpathExpr) ==
    /\ isXsdDocument
    /\ call' = [op |-> "selectElements", arg |-> xpathExpr,
                res |-> Ok(selectElements(xpathExpr, <<>>))]
    /\ UNCHANGED callFrame

TreeNext ==
    \/ GetRootChildren
    \/ \E i \in 1..Len(Given) : GetNodeChildren(i)
    \/ \E i \in 1..Len(Given) : FocusElement(i)
    \/ \E t \in TypeRefs : ResolveBaseType(t)
    \/ \E t \in TypeRefs : IsEnumerationType(t)
    \/ \E x \in Locators : OpenSelection(x)
    \/ \E q \in GlobalQueries : SelectElements(q)

SpecTree == TreeInit /\ [][TreeNext]_vars

-----------------------------------------------------------------------------
(* Tree items and their decorations (getTreeItem of xsdOutline.ts and       *)
(* src/src/xsdNodeDecorationProvider.ts). A tree item is decorated through  *)
(* its resourceUri `xsd-node:/<name>_<random>`; the random part makes the   *)
(* key of every item a new one, so the keys are numbered as they are issued. *)
(* The tooltip text of an item (its documentation) is left out.             *)

MaxItems == 1       \* tree items built in one run

InfinitySign == "oo"    \* the badge character U+221E

stringTypes == {"string", "anyURI", "dateTime", "date", "token", "ID", "IDREF", "NCName"}
numericTypes == {"decimal", "integer", "int", "long", "short", "byte", "float", "double"}

\* the switch (localName) of getTreeItem
iconPath(node) ==
    LET localName == ElemOf(node.element).l IN
    CASE localName = "complexType" -> "symbol-constructor"
      [] localName = "simpleType" ->
             IF isEnumerationType(<<node.name>>) THEN "symbol-enum" ELSE "symbol-field"
      [] localName = "element" ->
             IF node.type # <<>>
             THEN (IF isEnumerationType(<<StripPrefix(node.type)>>) THEN "symbol-enum"
                   ELSE IF node.baseType \in stringTypes THEN "symbol-text"
                   ELSE IF node.baseType \in numericTypes THEN "symbol-number"
                   ELSE IF node.baseType = "boolean" THEN "symbol-boolean"
                   ELSE "symbol-field")
             ELSE IF Len(selectElements(QChildren({"complexType"}), <<node.element>>)) > 0
             THEN "symbol-constructor"
             ELSE "symbol-field"
      [] localName = "choice" -> "symbol-class"
      [] localName = "attribute" -> "symbol-property"
      [] localName = "enumeration" -> "symbol-enum-member"
      [] OTHER -> "symbol-field"

\* The TreeItem getTreeItem returns for a node, id being its new key.
getTreeItem(node, id) ==
    [label |-> node.name,
     collapsibleState |-> IF node.hasChildren THEN "Collapsed" ELSE "None",
     description |-> node.type,
     resourceUri |-> id,
     command |-> [command |-> "xsdOutline.openSelection", arguments |-> <<node.xpath>>],
     iconPath |-> iconPath(node)]

\* updateOccurrences that records whatever it is given
updateOccurrencesAlways(occ, key, min, max) ==
    [k \in DOMAIN occ \cup {key} |->
        IF k = key THEN [min |-> min, max |-> max] ELSE occ[k]]

\* updateOccurrences(uri, min, max): the occurrences map afterwards.
updateOccurrences(occ, key, min, max) ==
    IF (min = "" /\ max = "") \/ (min = "1" /\ min = max) THEN occ
    ELSE [k \in DOMAIN occ \cup {key} |->
             IF k = key THEN [min |-> min, max |-> max] ELSE occ[k]]

\* updateNillableNode(uri, true): the keys set to true afterwards.
updateNillableNode(nodes, key) == nodes \cup {key}

createOccurrenceDecoration(min, max) ==
    LET minBadge == IF min # "" THEN (IF min # "0" /\ min # "1" THEN "N" ELSE min) ELSE "1"
        maxBadge == IF max # ""
                    THEN (IF max = "unbounded" THEN InfinitySign
                          ELSE IF max # "1" THEN "N" ELSE max)
                    ELSE "1"
    IN [kind |-> "occurrence",
        badge |-> <<minBadge, maxBadge>>,
        tooltip |-> (IF min # "" THEN <<<<"minOccurs", min>>>> ELSE <<>>)
                    \o (IF max # "" THEN <<<<"maxOccurs", max>>>> ELSE <<>>)]

createNillableDecoration == [kind |-> "nillable", badge |-> <<>>, tooltip |-> <<"Nillable">>]

\* `return undefined`
NoDecoration == [kind |-> "none", badge |-> <<>>, tooltip |-> <<>>]

provideFileDecoration(key) ==
    IF key \in DOMAIN occurrences
    THEN createOccurrenceDecoration(occurrences[key].min, occurrences[key].max)
    ELSE IF key \in nillableNodes THEN createNillableDecoration
    ELSE NoDecoration

decorationFrame == <<activated, host, provider, tasks, context, last, oracle>>

\* the view asks for the tree item of a node it was given
GetTreeItem(i) ==
    LET node == Given[i]
        e == ElemOf(node.element)
    IN
    /\ nodeIds < MaxItems
    /\ nodeIds' = nodeIds + 1
    /\ nillableNodes' = IF e.nillable THEN updateNillableNode(nillableNodes, nodeIds')
                        ELSE nillableNodes
    /\ occurrences' = IF e.l = "element" /\ (e.min # "" \/ e.max # "")
                      THEN updateOccurrences(occurrences, nodeIds', e.min, e.max)
                      ELSE occurrences
    /\ call' = [op |-> "getTreeItem", arg |-> <<node>>, res |-> Ok(getTreeItem(node, nodeIds'))]
    /\ UNCHANGED decorationFrame

\* the view asks for the decoration of the tree item it was just given
ProvideFileDecoration ==
    /\ call.op = "getTreeItem"
    /\ call' = [op |-> "provideFileDecoration",
                arg |-> <<call.arg[1], call.res.v.resourceUri>>,
                res |-> Ok(provideFileDecoration(call.res.v.resourceUri))]
    /\ UNCHANGED <<decorationFrame, decorations>>

\* The view on a settled document set, with the whole stack at hand.
DecorationInit ==
    /\ TreeInit
    /\ oracle = [throws |-> FALSE, slack |-> 0]

DecorationNext ==
    \/ GetRootChildren
    \/ \E i \in 1..Len(Given) : GetNodeChildren(i)
    \/ \E i \in 1..Len(Given) : GetTreeItem(i)
    \/ ProvideFileDecoration

SpecDecoration == DecorationInit /\ [][DecorationNext]_vars

-----------------------------------------------------------------------------
(* Recomputation: what the document store holds and publishes               *)

\* A recomputation ended in the step just taken.
Ended == last.ev # "none"

\* C1: once no recomputation is in flight, no binding loaded on behalf of a
\* superseded trigger's document is present among the import bindings.
NoSupersededBinding ==
    tasks = <<>> => \A i \in 1..Len(importedDocuments) : ~importedDocuments[i].stale

\* C2: when a triggered recomputation has ended, the root document is the
\* parse of the active document's current text (none when the active editor
\* is not xml or its text does not parse).
RootIsParseOfCurrentText ==
    Ended /\ tasks = <<>> =>
        document = IF active # "none" /\ languageId(active) = "xml" /\ Parses(text[active])
                   THEN <<[u |-> active, c |-> text[active], v |-> 0]>>
                   ELSE <<>>

\* C3: a recomputation triggered while the document is a schema, and ending
\* with it still a schema and nothing left in flight, publishes a tree-change
\* notification at its end.
SchemaTriggerPublishes == Ended /\ last.kept /\ tasks = <<>> => last.fired

-----------------------------------------------------------------------------
(* Type resolution                                                          *)

\* The base the first restriction of the first simpleType named bare gives,
\* <<>> when there is none: one link of a restriction chain.
RestrictionBase(bare) ==
    LET simpleTypes == selectElements(QNamed("simpleType", bare), <<>>)
        restrictions == IF Len(simpleTypes) > 0
                        THEN Select(QChildren({"restriction"}), simpleTypes[1].doc,
                                    simpleTypes[1].n)
                        ELSE <<>>
    IN IF Len(restrictions) > 0 THEN ElemOf(restrictions[1]).base ELSE <<>>

\* The name at the end of the chain starting at bare, <<>> when the chain
\* does not end within fuel links.
RECURSIVE ChainEnd(_, _)
ChainEnd(bare, fuel) ==
    IF bare \in builtInTypes \/ RestrictionBase(bare) = <<>> THEN <<bare>>
    ELSE IF fuel = 0 THEN <<>>
    ELSE ChainEnd(StripPrefix(RestrictionBase(bare)), fuel - 1)

\* A chain that ends has no more links than there are simpleTypes.
SimpleTypeCount == Len(selectElements(Path(TRUE, <<Step("desc", {"simpleType"})>>), <<>>))

\* C4: resolveBaseType returns the name at the end of a restriction chain
\* that ends, and on a chain that runs in a circle it ends with an error
\* that names a type instead of recursing on.
ResolveBaseTypeTerminates ==
    call.op = "resolveBaseType" /\ call.arg # <<>> =>
        LET end == ChainEnd(StripPrefix(call.arg), SimpleTypeCount)
        IN IF end # <<>> THEN call.res = Ok(end[1])
           ELSE ~call.res.ok /\ call.res.v # ""

\* The simpleTypes named as typeName is, root document first.
SimpleTypesNamed(typeName) == selectElements(QNamed("simpleType", StripPrefix(typeName)), <<>>)

\* The simpleType has a restriction with an enumeration child.
Enumerated(simpleType) == Len(Select(QEnumerations, simpleType.doc, simpleType.n)) > 0

\* C9 as stated: isEnumerationType(T) is true exactly when some simpleType
\* named T in the loaded document set has an enumeration under its restriction.
EnumerationIffSomeDefinition ==
    call.op = "isEnumerationType" =>
        call.res.v = (\E i \in 1..Len(SimpleTypesNamed(call.arg)) :
                          Enumerated(SimpleTypesNamed(call.arg)[i]))

\* C9, amended: isEnumerationType(T) is true exactly when the first
\* simpleType named T, root document first and then the imported documents
\* in binding order, has an enumeration under its restriction.
EnumerationIffFirstDefinition ==
    call.op = "isEnumerationType" =>
        call.res.v = (/\ Len(SimpleTypesNamed(call.arg)) > 0
                      /\ Enumerated(SimpleTypesNamed(call.arg)[1]))

\* isEnumerationType was asked about a name that the root document defines
\* without enumerations and an imported document with them.
EnumerationAskedOfShadowedType ==
    /\ call.op = "isEnumerationType"
    /\ Len(SimpleTypesNamed(call.arg)) > 1
    /\ ~Enumerated(SimpleTypesNamed(call.arg)[1])
    /\ \E i \in 1..Len(SimpleTypesNamed(call.arg)) : Enumerated(SimpleTypesNamed(call.arg)[i])
    /\ call.res.v = FALSE

-----------------------------------------------------------------------------
(* Tree building                                                            *)

\* C5: getChildren of a node whose hasChildren flag is false returns the
\* empty sequence.
NoChildrenUnlessExpandable ==
    call.op = "getChildren" /\ call.arg # <<>> /\ ~call.arg[1].hasChildren =>
        call.res = Ok(<<>>)

\* getChildren was asked about a node that is flagged as having no children
\* although the document declares members under it.
AskedChildrenOfFlaggedLeaf ==
    /\ call.op = "getChildren"
    /\ call.arg # <<>>
    /\ ~call.arg[1].hasChildren
    /\ getChildNodes(call.arg[1].element).ok
    /\ getChildNodes(call.arg[1].element).v # <<>>
    /\ call.res = Ok(<<>>)

\* The elements the nodes of a result stand for, in the result's order.
ElementsOf(nodes) == [i \in 1..Len(nodes) |-> nodes[i].element]

\* C6: the root nodes are exactly the element declarations directly under
\* the root document's schema root, in document order.
RootNodesAreRootDeclarations ==
    call.op = "getChildren" /\ call.arg = <<>> /\ call.res.ok /\ isXsdDocument =>
        ElementsOf(call.res.v) = Select(QRootElements, document[1], 0)

\* The uri of the document that contains an element.
ContainingUri(el) ==
    IF el.doc = document[1] THEN editor ELSE OwnerUri(el.doc, importedDocuments)

\* The address with its names matched on local names alone.
ByLocalName(path) ==
    [path EXCEPT !.steps = [i \in 1..Len(path.steps) |-> [path.steps[i] EXCEPT !.q = FALSE]]]

\* The structural names of the address of el single out el in the document set.
StructurallyUnique(el) ==
    selectElements(ByLocalName(generateXPathForElement(el)), <<>>) = <<el>>

\* C7: resolving the address generated for a construct whose structural
\* names are unique yields that construct and the document that contains it.
LocatorRoundTrip ==
    call.op = "focusElement" /\ call.arg[1].xpath # NoPath
    /\ StructurallyUnique(call.arg[1].element) =>
        call.res = [found |-> TRUE, target |-> <<call.arg[1].element>>,
                    uri |-> ContainingUri(call.arg[1].element)]

-----------------------------------------------------------------------------
(* Inheritance order                                                        *)

\* The complexType a type reference names: the first one in the document set.
ComplexTypeNamed(typeName) == selectElements(QNamed("complexType", StripPrefix(typeName)), <<>>)

\* The complexType the first extension of complexType builds on, if any.
ExtendedType(complexType) ==
    LET extensions == Select(QExtensions, complexType.doc, complexType.n)
    IN IF Len(extensions) > 0 /\ ElemOf(extensions[1]).base # <<>>
       THEN ComplexTypeNamed(ElemOf(extensions[1]).base)
       ELSE <<>>

\* The extension chain of a complexType: itself, what it extends, and so on
\* (fuel: no chain that ends is longer than the document set has elements).
RECURSIVE ExtensionChain(_, _)
ExtensionChain(complexType, fuel) ==
    IF fuel = 0 \/ ExtendedType(complexType) = <<>> THEN <<complexType>>
    ELSE <<complexType>> \o ExtensionChain(ExtendedType(complexType)[1], fuel - 1)

ComplexTypeCount == Len(selectElements(Path(TRUE, <<Step("desc", {"complexType"})>>), <<>>))

\* The element is declared inside the complexType.
DeclaredIn(el, complexType) ==
    /\ el.doc = complexType.doc
    /\ complexType.n \in AncestorsOf(Tree(el.doc.c), el.n)

\* How far up the chain the type that declares el is (0: not in the chain).
ChainIndex(el, chain) ==
    IF \E k \in 1..Len(chain) : DeclaredIn(el, chain[k])
    THEN CHOOSE k \in 1..Len(chain) : DeclaredIn(el, chain[k])
    ELSE 0

\* The passes of getTypeChildren a member can come from: 1 the groups of an
\* extension, 2 the type's own groups, 3 the declarations directly under it.
Passes(el, complexType) ==
    IF el.e.p = complexType.n THEN (IF el.e.l = "choice" THEN {2, 3} ELSE {3})
    ELSE IF Tree(el.doc.c)[el.e.p].p = complexType.n THEN {2}
    ELSE {1}

\* a may come before b among the members of the chain's first type
MayPrecede(a, b, chain) ==
    LET i == ChainIndex(a, chain)
        j == ChainIndex(b, chain)
    IN \/ i > j
       \/ i = j /\ \E x \in Passes(a, chain[i]) : \E y \in Passes(b, chain[j]) : x <= y

\* The element is a member of the complexType: declared directly under it,
\* in a sequence or all directly under it (a choice there is one member
\* itself), or in a group of its extension.
MemberOf(el, complexType) ==
    LET t == Tree(el.doc.c)
        group == t[el.e.p]
    IN /\ el.doc = complexType.doc
       /\ \/ el.e.p = complexType.n
          \/ group.p = complexType.n /\ group.l \in {"sequence", "all"}
          \/ /\ group.l \in Groups
             /\ t[group.p].l = "extension"
             /\ t[t[group.p].p].l = "complexContent"
             /\ t[t[group.p].p].p = complexType.n

\* The element declarations that are members of the types of the chain.
ChainElements(chain) ==
    {el \in UNION {{[doc |-> chain[k].doc, n |-> n, e |-> Tree(chain[k].doc.c)[n]] :
                        n \in 1..Len(Tree(chain[k].doc.c))} : k \in 1..Len(chain)} :
        ElemOf(el).l = "element" /\ \E k \in 1..Len(chain) : MemberOf(el, chain[k])}

\* getChildren was asked about an element whose declared type is a
\* complexType, and answered from that type.
AnsweredFromDeclaredType ==
    /\ call.op = "getChildren"
    /\ call.arg # <<>>
    /\ call.res.ok
    /\ call.arg[1].hasChildren
    /\ ElemOf(call.arg[1].element).l = "element"
    /\ ComplexTypeNamed(call.arg[1].type) # <<>>
    /\ Select(QChildren({"complexType"}), call.arg[1].element.doc, call.arg[1].element.n) = <<>>
    /\ ~isEnumerationType(call.arg[1].type)

\* C10: the children of an element of a declared complexType are the members
\* of the types of its extension chain, the members of a type that is
\* extended before those of the type extending it, and for each type those
\* of the extension's groups, then of its own groups, then those directly
\* under it.
InheritedMembersFirst ==
    AnsweredFromDeclaredType =>
        LET chain == ExtensionChain(ComplexTypeNamed(call.arg[1].type)[1], ComplexTypeCount)
            els == ElementsOf(call.res.v)
            members == {i \in 1..Len(els) : ChainIndex(els[i], chain) > 0}
        IN /\ \A el \in ChainElements(chain) : \E i \in members : els[i] = el
           /\ \A i, j \in members : i < j => MayPrecede(els[i], els[j], chain)

\* getChildren answered for an element whose type extends a type that
\* extends another, with members of all three.
AnsweredAcrossExtensionChain ==
    /\ AnsweredFromDeclaredType
    /\ LET chain == ExtensionChain(ComplexTypeNamed(call.arg[1].type)[1], ComplexTypeCount)
           els == ElementsOf(call.res.v)
       IN /\ Len(chain) = 3
          /\ \A k \in 1..3 : \E i \in 1..Len(els) : ChainIndex(els[i], chain) = k

-----------------------------------------------------------------------------
(* Import failures                                                          *)

\* The directives of the root document that fail on the present file system.
FailingDirectives ==
    IF document = <<>> THEN {}
    ELSE {i \in 1..Len(RootDirectives(document[1])) :
             Failure(RootDirectives(document[1])[i], editor, disk) # ""}

\* C8: when a recomputation that ran alone ends and directives of the root
\* document fail, the failures reported are those of the failing directives,
\* the bindings are the ones the other directives make, none for a failing
\* one, and every element declaration of the root document is a root node.
ImportFailuresIsolated ==
    last.ev = "parsed" /\ isXsdDocument /\ FailingDirectives # {} =>
        /\ last.reports = SettledReports(document[1], disk)
        /\ importedDocuments = SettledBindings(document[1], disk)
        /\ \A i \in FailingDirectives :
               \A k \in 1..Len(importedDocuments) :
                   importedDocuments[k].uri #
                       JoinBase(editor, RootDirectives(document[1])[i].loc)
        /\ getRootNodes.ok
        /\ \A el \in {Select(QRootElements, document[1], 0)[k] :
                         k \in 1..Len(Select(QRootElements, document[1], 0))} :
               \E k \in 1..Len(getRootNodes.v) : getRootNodes.v[k].element = el

\* A recomputation ended with one directive failing to resolve, one failing
\* to load, and a directive after them bound.
EndedWithFailuresAndBinding ==
    /\ last.ev = "parsed"
    /\ isXsdDocument
    /\ \E i, j \in FailingDirectives :
           /\ Failure(RootDirectives(document[1])[i], editor, disk) = "load"
           /\ Failure(RootDirectives(document[1])[j], editor, disk) = "find"
           /\ \E k \in 1..Len(RootDirectives(document[1])) :
                  /\ k > i /\ k > j
                  /\ \E b \in 1..Len(importedDocuments) :
                         importedDocuments[b].ns = RootDirectives(document[1])[k].ns

-----------------------------------------------------------------------------
(* Children by declared type                                                *)

\* What a construct directly contains, in document order.
ChildrenOf(el) == Select(QChildren({}), el.doc, el.n)

\* getChildren was asked about an element declaration without an inline
\* complexType.
AskedOfPlainElement ==
    /\ call.op = "getChildren"
    /\ call.arg # <<>>
    /\ ElemOf(call.arg[1].element).l = "element"
    /\ Select(QChildren({"complexType"}), call.arg[1].element.doc, call.arg[1].element.n) = <<>>

\* The declared type of the element asked about is an enumeration type.
AskedOfEnumerationTyped ==
    /\ AskedOfPlainElement
    /\ Len(SimpleTypesNamed(call.arg[1].type)) > 0
    /\ Enumerated(SimpleTypesNamed(call.arg[1].type)[1])

\* The complexType contains one sequence, and the sequence only elements.
SequenceOfElements(complexType) ==
    /\ Len(ChildrenOf(complexType)) = 1
    /\ ElemOf(ChildrenOf(complexType)[1]).l = "sequence"
    /\ ChildrenOf(ChildrenOf(complexType)[1]) # <<>>
    /\ \A i \in 1..Len(ChildrenOf(ChildrenOf(complexType)[1])) :
           ElemOf(ChildrenOf(ChildrenOf(complexType)[1])[i]).l = "element"

\* The declared type of the element asked about is a complexType with a
\* sequence of elements, and the element has no content of its own.
AskedOfSequenceTyped ==
    /\ AskedOfPlainElement
    /\ ~AskedOfEnumerationTyped
    /\ ChildrenOf(call.arg[1].element) = <<>>
    /\ ComplexTypeNamed(call.arg[1].type) # <<>>
    /\ SequenceOfElements(ComplexTypeNamed(call.arg[1].type)[1])

\* C11: the children of an element of an enumeration type are one leaf per
\* enumeration value of the simpleType, in declaration order, named by the
\* value and not expandable; the children of an element whose type is a
\* complexType with a sequence of elements are those elements, in order.
ChildrenFollowDeclaredType ==
    /\ AskedOfEnumerationTyped =>
           LET values == Select(QEnumerations, SimpleTypesNamed(call.arg[1].type)[1].doc,
                                SimpleTypesNamed(call.arg[1].type)[1].n)
           IN /\ call.res.ok
              /\ ElementsOf(call.res.v) = values
              /\ \A i \in 1..Len(call.res.v) :
                     /\ call.res.v[i].name = ElemOf(values[i]).value
                     /\ ~call.res.v[i].hasChildren
    /\ AskedOfSequenceTyped =>
           /\ call.res.ok
           /\ ElementsOf(call.res.v) =
                  ChildrenOf(ChildrenOf(ComplexTypeNamed(call.arg[1].type)[1])[1])

\* The names of the nodes of a result, in the result's order.
NamesOf(nodes) == [i \in 1..Len(nodes) |-> nodes[i].name]

\* getChildren answered [NEW, DONE] for Status, whose type an import defines.
StatusAnsweredNewDone ==
    /\ AskedOfEnumerationTyped
    /\ call.arg[1].name = "Status"
    /\ call.res.ok
    /\ NamesOf(call.res.v) = <<"NEW", "DONE">>

\* getChildren answered [Id, Status] for Order.
OrderAnsweredIdStatus ==
    /\ AskedOfSequenceTyped
    /\ call.arg[1].name = "Order"
    /\ call.res.ok
    /\ NamesOf(call.res.v) = <<"Id", "Status">>

-----------------------------------------------------------------------------
(* Occurrence decoration                                                    *)

\* C12: an element node has no occurrence decoration when minOccurs and
\* maxOccurs are both absent or both 1 and has one otherwise; the second
\* character of its badge is 1 for a maximum that is unset or 1, the infinity
\* sign for unbounded and N for any other value, and the badge of minOccurs 0
\* with maxOccurs unbounded is 0 followed by the infinity sign.
OccurrenceDecoration ==
    call.op = "provideFileDecoration" /\ ElemOf(call.arg[1].element).l = "element" =>
        LET e == ElemOf(call.arg[1].element) IN
        IF (e.min = "" /\ e.max = "") \/ (e.min = "1" /\ e.max = "1")
        THEN call.res.v.kind # "occurrence"
        ELSE /\ call.res.v.kind = "occurrence"
             /\ call.res.v.badge[2] = (CASE e.max \in {"", "1"} -> "1"
                                         [] e.max = "unbounded" -> InfinitySign
                                         [] OTHER -> "N")
             /\ e.min = "0" /\ e.max = "unbounded" => call.res.v.badge = <<"0", InfinitySign>>

\* The decoration of Status (minOccurs 0, maxOccurs unbounded) was asked for
\* and is the badge 0 and infinity.
StatusBadgeZeroInfinity ==
    /\ call.op = "provideFileDecoration"
    /\ call.arg[1].name = "Status"
    /\ ElemOf(call.arg[1].element).min = "0"
    /\ ElemOf(call.arg[1].element).max = "unbounded"
    /\ call.res.v.badge = <<"0", InfinitySign>>

\* The decoration of Id (minOccurs 1, maxOccurs 1) was asked for: there is none.
IdUndecorated ==
    /\ call.op = "provideFileDecoration"
    /\ call.arg[1].name = "Id"
    /\ ElemOf(call.arg[1].element).min = "1"
    /\ call.res.v = NoDecoration

-----------------------------------------------------------------------------
(* Root document that does not parse                                        *)

\* Nodes a caller may still hold from a tree built earlier.
HeldNodes ==
    {[element |-> [doc |-> [u |-> "/w/a.xsd", c |-> "main", v |-> 0], n |-> k,
                   e |-> MainTree[k]],
      name |-> MainTree[k].name, type |-> MainTree[k].type, baseType |-> "",
      hasChildren |-> TRUE, sourceUri |-> "/w/a.xsd", xpath |-> NoPath] :
        k \in 1..Len(MainTree)}

\* The provider holds an editor whose text it could not parse.
RootParseFailed == document = <<>> /\ editor # "none"

\* The step ends a recomputation started by a trigger (a recomputation
\* resumed from a suspension leaves the list of suspended ones shorter).
EndsOwnParse == last'.ev = "parsed" /\ Len(tasks') >= Len(tasks)

\* C13: a recomputation whose parse of the root document fails reports the
\* failure and leaves the document classified as no schema; and as long as
\* the provider holds a document that failed to parse, getChildren returns
\* the empty sequence for the root and for every node.
ParseFailureLeavesNoTree ==
    /\ [][EndsOwnParse /\ RootParseFailed' =>
              Report("", "parse") \in last'.reports /\ ~isXsdDocument']_vars
    /\ [](RootParseFailed =>
              /\ ~isXsdDocument
              /\ getChildren(<<>>) = Ok(<<>>)
              /\ \A node \in HeldNodes : getChildren(<<node>>) = Ok(<<>>))

\* A recomputation has just ended on a text that does not parse, after the
\* provider had shown a schema.
ParseFailedAfterSchema ==
    /\ last.ev = "parsed"
    /\ RootParseFailed
    /\ Report("", "parse") \in last.reports
    /\ last.fired
    /\ ~isXsdDocument

-----------------------------------------------------------------------------
(* Navigation                                                               *)

\* The loaded documents in the order navigation looks into them.
LoadedDocuments ==
    <<[doc |-> document[1], uri |-> editor]>>
    \o [i \in 1..Len(importedDocuments) |->
           [doc |-> importedDocuments[i].doc, uri |-> importedDocuments[i].uri]]

\* What the locator matches in the i-th loaded document.
MatchesIn(elementXpath, i) ==
    IF elementXpath \in {NoPath, Malformed} THEN <<>>
    ELSE Select(elementXpath, LoadedDocuments[i].doc, 0)

\* The loaded documents the locator matches something in.
Matching(elementXpath) ==
    {i \in 1..Len(LoadedDocuments) : MatchesIn(elementXpath, i) # <<>>}

\* C14: navigation goes to the first match in the first loaded document, the
\* root document first and then the imported ones in binding order, that the
\* locator matches anything in; when it matches nothing in any of them, or
\* cannot be evaluated, focusElement returns false, opens no document and
\* makes no selection.
NavigationFirstMatchOrNothing ==
    call.op = "openSelection" =>
        IF Matching(call.arg) = {}
        THEN call.res = NotFocused
        ELSE LET first == CHOOSE i \in Matching(call.arg) :
                              \A j \in Matching(call.arg) : i <= j
             IN /\ call.res.returned
                /\ call.res.target = <<MatchesIn(call.arg, first)[1]>>
                /\ call.res.opened = LoadedDocuments[first].uri

\* Navigation went to the root document's definition of a name that an
\* imported document defines too.
NavigatedToRootOfTwo ==
    /\ call.op = "openSelection"
    /\ Cardinality(Matching(call.arg)) = 2
    /\ call.res.returned
    /\ call.res.opened = editor

\* Navigation went to the second imported document.
NavigatedToSecondImport ==
    /\ call.op = "openSelection"
    /\ Matching(call.arg) = {3}
    /\ call.res.returned
    /\ call.res.opened = importedDocuments[2].uri

\* Navigation with a locator that matches nothing reported not-found.
NavigationFoundNothing ==
    /\ call.op = "openSelection"
    /\ call.arg \notin {NoPath, Malformed}
    /\ Matching(call.arg) = {}
    /\ call.res = NotFocused

-----------------------------------------------------------------------------
(* One binding per namespace                                                *)

\* The directives of the root document that load on the present file system.
LoadedDirectives ==
    IF document = <<>> THEN {}
    ELSE {i \in 1..Len(RootDirectives(document[1])) :
             Failure(RootDirectives(document[1])[i], editor, disk) = ""}

\* The last of the loaded directives that carries the namespace string of
\* the i-th.
LaterOfNamespace(i) ==
    CHOOSE k \in LoadedDirectives :
        /\ RootDirectives(document[1])[k].ns = RootDirectives(document[1])[i].ns
        /\ \A j \in LoadedDirectives :
               RootDirectives(document[1])[j].ns = RootDirectives(document[1])[i].ns => j <= k

\* C15: there is never more than one binding for a namespace string, and
\* when the directives of a root document have been processed the binding
\* of a namespace string holds the location and the document of the last
\* loaded directive that carries it.
OneBindingPerNamespaceLastWins ==
    /\ \A i, j \in 1..Len(importedDocuments) :
           i # j => importedDocuments[i].ns # importedDocuments[j].ns
    /\ last.ev = "parsed" /\ isXsdDocument =>
           \A i \in LoadedDirectives :
               LET d == RootDirectives(document[1])[LaterOfNamespace(i)]
                   uri == resolveSchemaLocation(editor, d.loc, disk)[1]
               IN \E k \in 1..Len(importedDocuments) :
                      /\ importedDocuments[k].ns = d.ns
                      /\ importedDocuments[k].uri = uri
                      /\ importedDocuments[k].doc.u = uri
                      /\ importedDocuments[k].doc.c = disk[uri].c

\* A recomputation ended for a root document with two loaded directives of
\* one namespace string at different locations: the binding is the later's.
TwoDirectivesOneNamespace ==
    /\ last.ev = "parsed"
    /\ isXsdDocument
    /\ \E i, j \in LoadedDirectives :
           /\ i < j
           /\ RootDirectives(document[1])[i].ns = RootDirectives(document[1])[j].ns
           /\ resolveSchemaLocation(editor, RootDirectives(document[1])[i].loc, disk)
                  # resolveSchemaLocation(editor, RootDirectives(document[1])[j].loc, disk)
           /\ \E k \in 1..Len(importedDocuments) :
                  /\ importedDocuments[k].ns = RootDirectives(document[1])[j].ns
                  /\ <<importedDocuments[k].uri>> =
                         resolveSchemaLocation(editor, RootDirectives(document[1])[j].loc, disk)

-----------------------------------------------------------------------------
(* Modification-time cache                                                  *)

\* C16: every cache entry pairs a document with the modification time of
\* the very content the document was parsed from (a document records as v
\* the modification time its content had when it was read).
CacheEntryOfItsContent ==
    \A p \in Paths :
        importedSchemaCache[p] # <<>> =>
            importedSchemaCache[p][1].doc.v = importedSchemaCache[p][1].mtimeMs

-----------------------------------------------------------------------------
(* Order of an unscoped query                                               *)

\* The matches in the loaded documents from the i-th on, document by document.
RECURSIVE MatchesFrom(_, _)
MatchesFrom(xpathExpr, i) ==
    IF i > Len(LoadedDocuments) THEN <<>>
    ELSE Select(xpathExpr, LoadedDocuments[i].doc, 0) \o MatchesFrom(xpathExpr, i + 1)

\* C17: an unscoped query returns the matches in the root document followed
\* by the matches in each imported document in the order of the bindings, so
\* that the first result is the root document's whenever it has a match.
UnscopedQueryRootFirst ==
    call.op = "selectElements" =>
        /\ call.res.v = MatchesFrom(call.arg, 1)
        /\ Select(call.arg, document[1], 0) # <<>> =>
               call.res.v[1] = Select(call.arg, document[1], 0)[1]

\* An unscoped query for a name the root document and an import both define
\* returned the root document's definition first and the import's after it.
QueryMatchedRootAndImport ==
    /\ call.op = "selectElements"
    /\ call.arg = QNamed("simpleType", "Dup")
    /\ Len(call.res.v) = 2
    /\ call.res.v[1].doc = document[1]
    /\ call.res.v[2].doc = importedDocuments[1].doc

\* An unscoped query returned matches of two imported documents, those of
\* the binding registered first before those of the second.
QueryMatchedTwoImports ==
    /\ call.op = "selectElements"
    /\ Len(importedDocuments) = 2
    /\ \E i, j \in 1..Len(call.res.v) :
           /\ i < j
           /\ call.res.v[i].doc = importedDocuments[1].doc
           /\ call.res.v[j].doc = importedDocuments[2].doc

-----------------------------------------------------------------------------
(* Expandability                                                            *)

\* The element declarations that lie in a group below the construct, with
\* nothing but groups and the containers named in through between the
\* construct and them.
GroupedElements(construct, through) ==
    LET t == Tree(construct.doc.c)
        Between(k) == {j \in AncestorsOf(t, k) : construct.n \in AncestorsOf(t, j)}
    IN {k \in 1..Len(t) :
           /\ t[k].l = "element"
           /\ construct.n \in AncestorsOf(t, k)
           /\ t[k].p # construct.n
           /\ t[t[k].p].l \in Groups
           /\ \A j \in Between(k) : t[j].l \in Groups \cup through}

\* 1: the declared type is a complexType whose groups, or those of a type it
\* inherits from, contain an element.
TypeHasGroupedElement(type) ==
    /\ ComplexTypeNamed(type) # <<>>
    /\ \E k \in 1..Len(ExtensionChain(ComplexTypeNamed(type)[1], ComplexTypeCount)) :
           GroupedElements(ExtensionChain(ComplexTypeNamed(type)[1], ComplexTypeCount)[k],
                           {"complexContent", "extension"}) # {}

\* 2: the construct contains an inline complexType or nested groups with an
\* element in them.
HasInlineMembers(element) == GroupedElements(element, {"complexType"}) # {}

\* 3: the declared type is a complexType that uses extension.
TypeUsesExtension(type) ==
    /\ ComplexTypeNamed(type) # <<>>
    /\ Select(QExtensions, ComplexTypeNamed(type)[1].doc, ComplexTypeNamed(type)[1].n) # <<>>

\* 4: the declared type is an enumeration type.
TypeIsEnumeration(type) ==
    /\ Len(SimpleTypesNamed(type)) > 0
    /\ Enumerated(SimpleTypesNamed(type)[1])

\* The nodes for element declarations among those getChildren has returned.
CreatedNodes ==
    {Given[i] : i \in {j \in 1..Len(Given) : ElemOf(Given[j].element).l = "element"}}

\* C18: a node created for an element declaration has hasChildren true
\* whenever its declared type has grouped elements of its own or inherited,
\* or the element contains an inline complexType or nested groups with an
\* element, or its declared type uses extension, or is an enumeration type.
ExpandableWhenAnyCondition ==
    \A node \in CreatedNodes :
        \/ TypeHasGroupedElement(node.type)
        \/ HasInlineMembers(node.element)
        \/ TypeUsesExtension(node.type)
        \/ TypeIsEnumeration(node.type)
        => node.hasChildren

-----------------------------------------------------------------------------
(* Tree construction reads only                                             *)

\* C19: a call of getChildren, for the root or for a node, leaves the root
\* document, the import bindings, the modification-time cache and the schema
\* classification as they were.
GetChildrenReadsOnly ==
    [][call'.op = "getChildren" =>
           /\ document' = document
           /\ importedDocuments' = importedDocuments
           /\ importedSchemaCache' = importedSchemaCache
           /\ isXsdDocument' = isXsdDocument]_vars

\* getChildren has answered for a node, resolving types in an imported
\* document, and the document set is as the recomputation left it.
ChildrenBuiltOverSettledSet ==
    /\ call.op = "getChildren"
    /\ call.arg # <<>>
    /\ call.res.ok
    /\ \E i \in 1..Len(call.res.v) : call.res.v[i].element.doc # document[1]
    /\ isXsdDocument
    /\ importedDocuments # <<>>
    /\ importedDocuments = SettledBindings(document[1], disk)
    /\ importedSchemaCache = SettledCache(document[1], disk)

-----------------------------------------------------------------------------
(* The published context flag                                               *)

\* C20: whenever the extension is active and no recomputation is in flight,
\* the value last published for 'xsdOutlineEnabled' is the schema
\* classification the provider holds.
ContextFollowsClassification ==
    activated /\ tasks = <<>> => context = isXsdDocument

\* A recomputation that was suspended at its imports has ended and published
\* the classification it found.
PublishedAfterSuspension ==
    /\ activated /\ tasks = <<>>
    /\ last.ev = "parsed" /\ last.fired
    /\ importedDocuments # <<>>
    /\ context /\ isXsdDocument

\* A recomputation superseded by a switch to a non-XML editor has ended
\* without publishing anything.
SupersededEndedUnpublished ==
    /\ activated /\ tasks = <<>>
    /\ last.ev = "parsed" /\ ~last.fired
    /\ editor = "none"
    /\ ~context /\ ~isXsdDocument

-----------------------------------------------------------------------------
(* Extension chains that run in a circle                                    *)

\* getChildren was asked about an expandable element without an inline
\* complexType whose declared type names a complexType and no enumeration:
\* the answer starts with getTypeChildren of that complexType.
AskedOfComplexTyped ==
    /\ AskedOfPlainElement
    /\ call.arg[1].hasChildren
    /\ ~isEnumerationType(call.arg[1].type)
    /\ ComplexTypeNamed(call.arg[1].type) # <<>>

\* The recursion of getTypeChildren entered at depth d for complexType goes
\* on until the engine's stack is full.
RECURSIVE StackExhausted(_, _)
StackExhausted(complexType, d) ==
    \/ d >= StackLimit
    \/ \E i \in 1..Len(Select(QExtensions, complexType.doc, complexType.n)) :
           LET base == ElemOf(Select(QExtensions, complexType.doc, complexType.n)[i]).base
           IN /\ base # <<>>
              /\ ComplexTypeNamed(base) # <<>>
              /\ StackExhausted(ComplexTypeNamed(base)[1], d + 1)

\* C21: getTypeChildren comes to an end by itself for every complexType of
\* the loaded document set, also for one that extends itself or whose
\* extension chain runs in a circle: the recursion never runs until the
\* stack is full, and getChildren returns a result.
GetTypeChildrenTerminates ==
    AskedOfComplexTyped =>
        /\ ~StackExhausted(ComplexTypeNamed(call.arg[1].type)[1], 0)
        /\ call.res.ok

-----------------------------------------------------------------------------
(* One node per member construct                                            *)

\* C22: the children computed for an element of a declared or inline
\* complexType hold each member construct at most once: no two nodes of the
\* result stand for the same element or choice.
EachMemberOnce ==
    call.op = "getChildren" /\ call.arg # <<>> /\ call.res.ok =>
        \A i, j \in 1..Len(call.res.v) :
            call.res.v[i].element = call.res.v[j].element => i = j

-----------------------------------------------------------------------------
(* Expandable nodes have children                                           *)

\* C23: a node that createNode or createChoiceNode flagged as expandable
\* has something to show: getChildren of it returns at least one child.
ExpandableHasChildren ==
    call.op = "getChildren" /\ call.arg # <<>> /\ call.arg[1].hasChildren =>
        call.res.ok /\ call.res.v # <<>>

====
